---- MODULE Spec2Model ----
(***************************************************************************)
(* Moderation decision core of the SKV SPb Telegram moderation bot:        *)
(*   - AntiSpamSystem (antispam.py): per-user bounded history heuristics   *)
(*   - ModerationDatabase (database.py): users, bans, trust, appeals       *)
(*   - ModerationBot (bot.py): message handling, admin and appeal commands *)
(* Time is counted in seconds.  Texts are tuples of Unicode code points.   *)
(***************************************************************************)
EXTENDS Integers, Sequences, FiniteSets, TLC

VARIABLES
    now,             \* the wall clock read by time.time() / datetime.now()
    user_histories,  \* AntiSpamSystem.user_histories
    sample,          \* the sample of inputs one behaviour draws from
    calls,           \* number of API calls / handler runs made so far
    flagged,         \* per user, the messages check_message has flagged so far
    ret,             \* the last call: its name, arguments and return value
    users,           \* the rows of table users, by user_id
    violations,      \* the rows of table violations, in insertion order
    appeals,         \* the rows of table appeals; the id is the position
    bot_config,      \* config.bot_config
    utc_offset,      \* local time minus UTC, in seconds
    sent_prompts,    \* the appeal ids the bot has asked /confirm_accept for
    tasks            \* the handlers and calls that have begun and not finished

vars == <<now, user_histories, sample, calls, flagged, ret,
          users, violations, appeals, bot_config, utc_offset, sent_prompts,
          tasks>>

\* the tables and settings of database.py and config.py
dbVars == <<users, violations, appeals, bot_config, utc_offset>>
\* the state of antispam.py
spamVars == <<user_histories, flagged>>

(***************************************************************************)
(* Bounds of the model                                                     *)
(***************************************************************************)
MaxCalls == 7
MaxCommands == 6
MaxUpdates == 4

(***************************************************************************)
(* Text helpers: str.lower(), str.strip(), `pattern in msg`                *)
(***************************************************************************)
Lower(c) ==
    IF (c >= 65 /\ c <= 90) \/ (c >= 1040 /\ c <= 1071) THEN c + 32
    ELSE IF c = 1025 THEN 1105
    ELSE c

IsSpace(c) == c \in {9, 10, 11, 12, 13, 28, 29, 30, 31, 32, 133, 160}

LowerText(s) == [i \in 1..Len(s) |-> Lower(s[i])]

Strip(s) ==
    LET keep == {i \in 1..Len(s) : ~IsSpace(s[i])}
    IN  IF keep = {} THEN <<>>
        ELSE LET lo == CHOOSE i \in keep : \A j \in keep : i <= j
                 hi == CHOOSE i \in keep : \A j \in keep : i >= j
             IN  SubSeq(s, lo, hi)

\* message_text.lower().strip()
Normalize(s) == Strip(LowerText(s))

\* `p in s` for strings
Contains(s, p) ==
    \E i \in 0..(Len(s) - Len(p)) : \A k \in 1..Len(p) : s[i + k] = p[k]

(***************************************************************************)
(* difflib.SequenceMatcher(None, a, b).ratio()                             *)
(* (no junk; autojunk only acts on a second sequence of 200+ characters)   *)
(***************************************************************************)
\* length of the common run of a and b starting at a[i], b[j], inside the windows
RECURSIVE RunLen(_, _, _, _, _, _)
RunLen(a, b, i, j, ahi, bhi) ==
    IF i > ahi \/ j > bhi \/ a[i] # b[j] THEN 0
    ELSE 1 + RunLen(a, b, i + 1, j + 1, ahi, bhi)

\* find_longest_match(alo, ahi, blo, bhi): the longest block, earliest in a, then
\* earliest in b.  Windows are 1-based and inclusive here.
FindLongestMatch(a, b, alo, ahi, blo, bhi) ==
    LET cand == {<<i, j>> \in (alo..ahi) \X (blo..bhi) : a[i] = b[j]}
        runs == {<<p[1], p[2], RunLen(a, b, p[1], p[2], ahi, bhi)>> : p \in cand}
    IN  IF cand = {} THEN <<alo, blo, 0>>
        ELSE CHOOSE m \in runs :
                \A q \in runs :
                    \/ m[3] > q[3]
                    \/ m[3] = q[3] /\ m[1] < q[1]
                    \/ m[3] = q[3] /\ m[1] = q[1] /\ m[2] <= q[2]

\* sum of the sizes of get_matching_blocks()
RECURSIVE MatchingChars(_, _, _, _, _, _)
MatchingChars(a, b, alo, ahi, blo, bhi) ==
    IF alo > ahi \/ blo > bhi THEN 0
    ELSE LET m == FindLongestMatch(a, b, alo, ahi, blo, bhi)
         IN  IF m[3] = 0 THEN 0
             ELSE m[3]
                  + MatchingChars(a, b, alo, m[1] - 1, blo, m[2] - 1)
                  + MatchingChars(a, b, m[1] + m[3], ahi, m[2] + m[3], bhi)

\* ratio() = 2.0 * matches / (len(a) + len(b)), 1.0 for two empty strings,
\* as the exact fraction <<numerator, denominator>>
Ratio(a, b) ==
    IF Len(a) + Len(b) = 0 THEN <<1, 1>>
    ELSE <<2 * MatchingChars(a, b, 1, Len(a), 1, Len(b)), Len(a) + Len(b)>>

(***************************************************************************)
(* AntiSpamSystem settings (antispam.py, __init__)                          *)
(***************************************************************************)
HISTORY_MAXLEN == 20
FLOOD_MESSAGES_LIMIT == 5
FLOOD_TIME_WINDOW == 60
DUPLICATE_TIME_WINDOW == 300
\* SIMILARITY_THRESHOLD = 0.8, as the fraction 8 / 10
SIMILARITY_THRESHOLD_NUM == 8
SIMILARITY_THRESHOLD_DEN == 10
SHORT_MESSAGE_LIMIT == 3
SHORT_MESSAGE_LENGTH == 10
SHORT_MESSAGE_TIME_WINDOW == 120
DUPLICATE_COUNT_LIMIT == 2
SIMILAR_COUNT_LIMIT == 2
SIMILAR_MAX_LENGTH == 20
INACTIVITY_SECONDS == 86400

\* SPAM_PATTERNS (Cyrillic phrases, by code point)
SPAM_PATTERNS == {
    <<1072, 1091>>,                                        \* "au"
    <<1072, 1091, 1091, 1091>>,                            \* "auuu"
    <<1086, 1090, 1074, 1077, 1090, 1100, 1090, 1077>>,    \* "otvet'te"
    <<1086, 1090, 1074, 1077, 1095, 1072, 1081, 1090, 1077>>, \* "otvechayte"
    <<1101, 1081>>,                                        \* "ey"
    <<1075, 1076, 1077, 32, 1074, 1089, 1077>>,            \* "gde vse"
    <<1072, 1083, 1083, 1086>>,                            \* "allo"
    <<63, 63, 63>>,                                        \* "???"
    <<33, 33, 33>>,                                        \* "!!!"
    <<1075, 1076, 1077, 32, 1074, 1086, 1076, 1072>>,      \* "gde voda"
    <<1075, 1076, 1077>>,                                  \* "gde"
    <<1082, 1086, 1075, 1076, 1072>>,                      \* "kogda"
    <<1087, 1086, 1095, 1077, 1084, 1091>>,                \* "pochemu"
    <<1085, 1091, 32, 1080>>,                              \* "nu i"
    <<1073, 1083, 1080, 1085>>,                            \* "blin"
    <<1086, 1087, 1103, 1090, 1100>>,                      \* "opyat'"
    <<1089, 1085, 1086, 1074, 1072>>,                      \* "snova"
    <<1086, 1087, 1072, 1072, 1072>> }                     \* "opaaa"

\* any(pattern in msg for pattern in self.SPAM_PATTERNS)
HasSpamPattern(msg) == \E p \in SPAM_PATTERNS : Contains(msg, p)

(***************************************************************************)
(* Sample message texts                                                    *)
(***************************************************************************)
TextBlank == <<32, 32>>                                    \* "  "
\* "Water is off in flat 7"
TextL1 == <<87, 97, 116, 101, 114, 32, 105, 115, 32, 111, 102, 102, 32, 105,
            110, 32, 102, 108, 97, 116, 32, 55>>
\* " WATER IS OFF in flat 7 "
TextL1v == <<32, 87, 65, 84, 69, 82, 32, 73, 83, 32, 79, 70, 70, 32, 105, 110,
             32, 102, 108, 97, 116, 32, 55, 32>>
\* "water is off in flat 9"
TextL2 == <<119, 97, 116, 101, 114, 32, 105, 115, 32, 111, 102, 102, 32, 105,
            110, 32, 102, 108, 97, 116, 32, 57>>
\* "the lift is broken again today"
TextL3 == <<116, 104, 101, 32, 108, 105, 102, 116, 32, 105, 115, 32, 98, 114,
            111, 107, 101, 110, 32, 97, 103, 97, 105, 110, 32, 116, 111, 100,
            97, 121>>
\* "hello there a"
TextM1 == <<104, 101, 108, 108, 111, 32, 116, 104, 101, 114, 101, 32, 97>>
\* "Hello there b"
TextM2 == <<72, 101, 108, 108, 111, 32, 116, 104, 101, 114, 101, 32, 98>>
\* "hello there c"
TextM3 == <<104, 101, 108, 108, 111, 32, 116, 104, 101, 114, 101, 32, 99>>
\* "au" (Cyrillic, a spam phrase)
TextS1 == <<1072, 1091>>
\* "ok"
TextS2 == <<111, 107>>
\* "yes"
TextS3 == <<121, 101, 115>>
\* "kogda dadut vodu" (Cyrillic, 16 characters, holds the phrase "kogda")
TextPL == <<1082, 1086, 1075, 1076, 1072, 32, 1076, 1072, 1076, 1091, 1090, 32,
            1074, 1086, 1076, 1091>>

Texts == {TextBlank, TextL1, TextL1v, TextL2, TextL3, TextM1, TextM2, TextM3,
          TextS1, TextS2, TextS3, TextPL}

\* One behaviour draws its inputs from one sample: the message texts, the delays
\* (seconds) between one clock reading and the next, and the delays after which
\* cleanup_old_data is called.
SpamSamples == {
    [texts |-> {TextL1, TextL1v, TextL2, TextL3}, delays |-> {1}, sweeps |-> {}],
    [texts |-> {TextL1, TextL2, TextL3}, delays |-> {1, 61}, sweeps |-> {}],
    [texts |-> {TextM1, TextM2, TextM3}, delays |-> {1}, sweeps |-> {}],
    [texts |-> {TextM1, TextM2}, delays |-> {1, 301}, sweeps |-> {}],
    [texts |-> {TextS1, TextS2, TextS3, TextPL, TextBlank}, delays |-> {1},
     sweeps |-> {}],
    [texts |-> {TextL1v, TextS2}, delays |-> {130}, sweeps |-> {1, 86401}] }

SpamUsers == {1}

\* Normalize, HasSpamPattern and the similarity test of _check_similar_messages,
\* evaluated once for the sample texts and looked up afterwards
NormalizeTable == {<<t, Normalize(t)>> : t \in Texts}
NormalizeOf(t) == (CHOOSE e \in NormalizeTable : e[1] = t)[2]
NormTexts == {e[2] : e \in NormalizeTable}
SpamPatternTable == {<<m, HasSpamPattern(m)>> : m \in NormTexts}
HasSpamPatternOf(m) == <<m, TRUE>> \in SpamPatternTable
\* similarity >= self.SIMILARITY_THRESHOLD
SimilarityAtLeastThreshold(a, b) ==
    LET r == Ratio(a, b)
    IN  r[1] * SIMILARITY_THRESHOLD_DEN >= SIMILARITY_THRESHOLD_NUM * r[2]
SimilarTable ==
    {<<p[1], p[2], SimilarityAtLeastThreshold(p[1], p[2])>> :
        p \in NormTexts \X NormTexts}
IsSimilar(a, b) == <<a, b, TRUE>> \in SimilarTable

(***************************************************************************)
(* ModerationDatabase (database.py) and BotConfig (config.py)              *)
(* Times are seconds; a DATETIME column holds the clock reading stored.    *)
(***************************************************************************)
\* SQL NULL / Python None in a numeric column or argument
NULL == -1

UserIds == {1, 2}

SECONDS_PER_MINUTE == 60
SECONDS_PER_DAY == 86400

\* datetime.now(): local time
LocalNow(t) == t + utc_offset
\* CURRENT_TIMESTAMP: UTC
UtcNow(t) == t

\* BotConfig as load_config_from_env leaves it when no variable is set;
\* OPENAI_ANALYSIS_THRESHOLD is in hundredths
BotConfig ==
    [AUTO_DELETE_BANNED_WORDS |-> TRUE,
     AUTO_BAN_ON_BANNED_WORDS |-> TRUE,
     BAN_DURATION_MINUTES |-> 60,
     WARNING_THRESHOLD |-> 3,
     TRUST_SYSTEM_ENABLED |-> TRUE,
     TRUST_DAYS_THRESHOLD |-> 3,
     TRUST_MESSAGES_THRESHOLD |-> 10,
     LINK_DETECTION_ENABLED |-> TRUE,
     AUTO_DELETE_LINKS_FROM_NEW |-> TRUE,
     BAN_ON_REPEATED_LINK_VIOLATION |-> TRUE,
     USE_OPENAI_ANALYSIS |-> TRUE,
     OPENAI_ANALYSIS_THRESHOLD |-> 70]

\* a user_id with no row in table users
NoUser ==
    [exists |-> FALSE, warnings_count |-> 0, is_banned |-> FALSE,
     ban_until |-> NULL, joined_chat_at |-> NULL, messages_count |-> 0,
     trust_level |-> "new", link_violations_count |-> 0]

\* the row INSERT INTO users (user_id, ...) creates from the column defaults
NewUser == [NoUser EXCEPT !.exists = TRUE]

\* create_or_update_user: the table afterwards
CreateOrUpdateUser(us, user_id) ==
    IF us[user_id].exists THEN us ELSE [us EXCEPT ![user_id] = NewUser]

\* add_warning: the UPDATE touches nothing for a missing row, and the
\* SELECT that follows then fails on fetchone()[0]
AddWarningRaises(us, user_id) == ~us[user_id].exists
AddWarning(us, user_id) ==
    IF us[user_id].exists
    THEN [us EXCEPT ![user_id].warnings_count = @ + 1]
    ELSE us

BanUser(us, user_id, duration_minutes, t) ==
    LET ban_until ==
            IF duration_minutes # NULL /\ duration_minutes # 0
            THEN LocalNow(t) + duration_minutes * SECONDS_PER_MINUTE
            ELSE NULL
    IN  IF us[user_id].exists
        THEN [us EXCEPT ![user_id].is_banned = TRUE,
                        ![user_id].ban_until = ban_until]
        ELSE us

\* an unban_user that leaves the time of expiry in place
UnbanUserKeepingUntil(us, user_id) ==
    IF us[user_id].exists
    THEN [us EXCEPT ![user_id].is_banned = FALSE]
    ELSE us

\* an unban_user that also starts the warnings anew
UnbanUserResettingWarnings(us, user_id) ==
    IF us[user_id].exists
    THEN [us EXCEPT ![user_id].is_banned = FALSE, ![user_id].ban_until = NULL,
                    ![user_id].warnings_count = 0]
    ELSE us

UnbanUser(us, user_id) ==
    IF us[user_id].exists
    THEN [us EXCEPT ![user_id].is_banned = FALSE, ![user_id].ban_until = NULL]
    ELSE us

\* an is_user_banned that reports nobody as banned
IsUserBannedNobody(us, user_id, t) == FALSE

\* is_user_banned: the value returned
IsUserBanned(us, user_id, t) ==
    LET user == us[user_id]
    IN  IF ~user.exists \/ ~user.is_banned THEN FALSE
        ELSE IF user.ban_until # NULL /\ user.ban_until <= LocalNow(t) THEN FALSE
        ELSE TRUE

\* an is_user_banned that reports the expiry without clearing the ban
IsUserBannedKeepingBan(us, user_id, t) == us

\* is_user_banned: the table afterwards
IsUserBannedUsers(us, user_id, t) ==
    LET user == us[user_id]
    IN  IF ~user.exists \/ ~user.is_banned THEN us
        ELSE IF user.ban_until # NULL /\ user.ban_until <= LocalNow(t)
        THEN UnbanUser(us, user_id)
        ELSE us

\* add_violation: the log afterwards
AddViolation_db(vs, user_id, violation_type, action_taken) ==
    Append(vs, [user_id |-> user_id, violation_type |-> violation_type,
                action_taken |-> action_taken])

\* a cleanup_expired_bans that matches only ban_until < now
ExpiredBansBeforeNow(us, t) ==
    {u \in UserIds : /\ us[u].exists
                     /\ us[u].is_banned
                     /\ us[u].ban_until # NULL
                     /\ us[u].ban_until < LocalNow(t)}

\* a cleanup_expired_bans whose UPDATE does not test ban_until IS NOT NULL
ExpiredBansWithoutNullTest(us, t) ==
    {u \in UserIds : /\ us[u].exists
                     /\ us[u].is_banned
                     /\ us[u].ban_until <= LocalNow(t)}

\* cleanup_expired_bans: the rows the UPDATE matches, and the table afterwards
ExpiredBans(us, t) ==
    {u \in UserIds : /\ us[u].exists
                     /\ us[u].is_banned
                     /\ us[u].ban_until # NULL
                     /\ us[u].ban_until <= LocalNow(t)}
\* a cleanup_expired_bans that clears the flag and leaves the time of expiry
CleanupExpiredBansKeepingUntil(us, t) ==
    [u \in UserIds |->
        IF u \in ExpiredBans(us, t)
        THEN [us[u] EXCEPT !.is_banned = FALSE]
        ELSE us[u]]

\* a cleanup_expired_bans that clears the time of expiry and leaves the flag
CleanupExpiredBansClearingUntil(us, t) ==
    [u \in UserIds |->
        IF u \in ExpiredBans(us, t)
        THEN [us[u] EXCEPT !.ban_until = NULL]
        ELSE us[u]]

CleanupExpiredBans(us, t) ==
    [u \in UserIds |->
        IF u \in ExpiredBans(us, t)
        THEN [us[u] EXCEPT !.is_banned = FALSE, !.ban_until = NULL]
        ELSE us[u]]

\* an update_user_activity that does not count the messages of a banned user
UpdateUserActivityUnlessBanned(us, user_id) ==
    IF us[user_id].exists /\ ~us[user_id].is_banned
    THEN [us EXCEPT ![user_id].messages_count = @ + 1]
    ELSE us

UpdateUserActivity(us, user_id) ==
    IF us[user_id].exists
    THEN [us EXCEPT ![user_id].messages_count = @ + 1]
    ELSE us

SetUserJoinedChat(us, user_id, t) ==
    IF us[user_id].exists /\ us[user_id].joined_chat_at = NULL
    THEN [us EXCEPT ![user_id].joined_chat_at = UtcNow(t)]
    ELSE us

\* (datetime.now() - user.joined_chat_at).days
DaysInChat(user, t) == (LocalNow(t) - user.joined_chat_at) \div SECONDS_PER_DAY

\* a calculate_trust_level that looks at the link violations first
CalculateTrustLevelLinksFirst(us, user_id, t) ==
    LET user == us[user_id]
    IN  IF ~user.exists \/ user.joined_chat_at = NULL THEN "new"
        ELSE IF user.link_violations_count > 0 THEN "suspicious"
        ELSE IF /\ DaysInChat(user, t) >= bot_config.TRUST_DAYS_THRESHOLD
                /\ user.messages_count >= bot_config.TRUST_MESSAGES_THRESHOLD
        THEN "trusted"
        ELSE "new"

CalculateTrustLevel(us, user_id, t) ==
    LET user == us[user_id]
    IN  IF ~user.exists \/ user.joined_chat_at = NULL THEN "new"
        ELSE IF /\ DaysInChat(user, t) >= bot_config.TRUST_DAYS_THRESHOLD
                /\ user.messages_count >= bot_config.TRUST_MESSAGES_THRESHOLD
        THEN "trusted"
        ELSE IF user.link_violations_count > 0 THEN "suspicious"
        ELSE "new"

UpdateTrustLevel(us, user_id, t) ==
    IF us[user_id].exists
    THEN [us EXCEPT ![user_id].trust_level = CalculateTrustLevel(us, user_id, t)]
    ELSE us

AddLinkViolation(us, user_id) ==
    IF us[user_id].exists
    THEN [us EXCEPT ![user_id].link_violations_count = @ + 1,
                    ![user_id].trust_level = "suspicious"]
    ELSE us

(***************************************************************************)
(* OpenAIAnalyzer (openai_analyzer.py); confidence is in hundredths        *)
(***************************************************************************)
\* analyze_message returned None
NoAnalysis == [violation |-> FALSE, confidence |-> NULL, action |-> "none"]

HIGH_CONFIDENCE == 90

IsViolationSignificant(analysis) ==
    IF ~analysis.violation THEN FALSE
    ELSE analysis.confidence >= bot_config.OPENAI_ANALYSIS_THRESHOLD

\* a get_recommended_action without the mute one warning below the threshold
GetRecommendedActionWithoutMute(analysis, user_warnings) ==
    IF ~IsViolationSignificant(analysis) THEN "none"
    ELSE IF analysis.confidence >= HIGH_CONFIDENCE
            /\ analysis.action \in {"ban", "mute"}
    THEN analysis.action
    ELSE IF user_warnings >= bot_config.WARNING_THRESHOLD THEN "ban"
    ELSE IF analysis.action \in {"warn", "delete"} THEN "warn"
    ELSE analysis.action

GetRecommendedAction(analysis, user_warnings) ==
    IF ~IsViolationSignificant(analysis) THEN "none"
    ELSE IF analysis.confidence >= HIGH_CONFIDENCE
            /\ analysis.action \in {"ban", "mute"}
    THEN analysis.action
    ELSE IF user_warnings >= bot_config.WARNING_THRESHOLD THEN "ban"
    ELSE IF user_warnings >= bot_config.WARNING_THRESHOLD - 1 THEN "mute"
    ELSE IF analysis.action \in {"warn", "delete"} THEN "warn"
    ELSE analysis.action

\* the appeals of a user that are pending
PendingAppeals(aps, user_id) ==
    {i \in 1..Len(aps) : aps[i].user_id = user_id /\ aps[i].status = "pending"}

\* an add_appeal that inserts without looking for a pending appeal
AddAppealUnchecked(aps, user_id, appeal_text) ==
    Append(aps, [user_id |-> user_id, appeal_text |-> appeal_text,
                 status |-> "pending", admin_id |-> NULL,
                 admin_response |-> "", created_at |-> UtcNow(now)])

\* an add_appeal that always reports a new id
AddAppealResultAlwaysNew(aps, user_id) == Len(aps) + 1

\* add_appeal: the value returned (-1: a pending appeal exists) ...
AddAppealResult(aps, user_id) ==
    IF PendingAppeals(aps, user_id) # {} THEN -1 ELSE Len(aps) + 1
\* ... and the table afterwards; appeal_text is the length of the text
AddAppeal(aps, user_id, appeal_text) ==
    IF PendingAppeals(aps, user_id) # {} THEN aps
    ELSE Append(aps, [user_id |-> user_id, appeal_text |-> appeal_text,
                      status |-> "pending", admin_id |-> NULL,
                      admin_response |-> "", created_at |-> UtcNow(now)])

\* get_appeal_by_id: whether a row is found
AppealExists(aps, appeal_id) == appeal_id \in 1..Len(aps)

\* an update_appeal_status that stores the status alone
UpdateAppealStatusWithoutAdmin(aps, appeal_id, status, admin_id, response) ==
    IF appeal_id \in 1..Len(aps)
    THEN [aps EXCEPT ![appeal_id].status = status]
    ELSE aps

\* update_appeal_status: the table afterwards; it succeeds iff the row exists
UpdateAppealStatus(aps, appeal_id, status, admin_id, admin_response) ==
    IF AppealExists(aps, appeal_id)
    THEN [aps EXCEPT ![appeal_id].status = status,
                     ![appeal_id].admin_id = admin_id,
                     ![appeal_id].admin_response = admin_response]
    ELSE aps

(***************************************************************************)
(* AntiSpamSystem (antispam.py)                                            *)
(***************************************************************************)
\* UserMessageHistory(): the value defaultdict creates for an unseen user
UserMessageHistory ==
    [messages |-> <<>>, timestamps |-> <<>>, spam_violations |-> 0,
     last_violation_time |-> 0]

\* a deque without maxlen
DequeAppendWithoutMaxlen(q, x) == Append(q, x)

\* deque(maxlen=20).append(x)
DequeAppend(q, x) ==
    IF Len(q) >= HISTORY_MAXLEN THEN Append(Tail(q), x) ELSE Append(q, x)

\* SpamDetectionResult; None is the record with is_spam = FALSE.
\* confidence is in hundredths (0.9 is 90).
NoSpam == [is_spam |-> FALSE, spam_type |-> "", confidence |-> 0, action |-> ""]
SpamDetectionResult(type, conf, act) ==
    [is_spam |-> TRUE, spam_type |-> type, confidence |-> conf, action |-> act]

\* a ladder keyed on the counter after its increment
GetActionAfterIncrement(spam_violations) ==
    IF spam_violations + 1 = 1 THEN "mute" ELSE "ban"

GetActionByViolations(spam_violations) ==
    IF spam_violations = 0 THEN "warn"
    ELSE IF spam_violations = 1 THEN "mute"
    ELSE "ban"

\* zip(history.messages, history.timestamps): the indices both deques have
Zipped(history) ==
    {i \in 1..Len(history.messages) : i <= Len(history.timestamps)}

\* a flood check that counts the incoming message with the stored ones
CheckFloodCountingIncoming(history, current_time) ==
    LET recent_messages ==
            Cardinality({i \in 1..Len(history.timestamps) :
                current_time - history.timestamps[i] <= FLOOD_TIME_WINDOW}) + 1
    IN  IF recent_messages >= FLOOD_MESSAGES_LIMIT
        THEN SpamDetectionResult("flood", 90,
                                 GetActionByViolations(history.spam_violations))
        ELSE NoSpam

CheckFlood(history, current_time) ==
    LET recent_messages ==
            Cardinality({i \in 1..Len(history.timestamps) :
                current_time - history.timestamps[i] <= FLOOD_TIME_WINDOW})
    IN  IF recent_messages >= FLOOD_MESSAGES_LIMIT
        THEN SpamDetectionResult("flood", 90,
                                 GetActionByViolations(history.spam_violations))
        ELSE NoSpam

\* a duplicate check that compares the raw text with the stored entries
CheckDuplicatesRawText(history, message_text, current_time) ==
    LET duplicate_count ==
            Cardinality({i \in Zipped(history) :
                /\ current_time - history.timestamps[i] <= DUPLICATE_TIME_WINDOW
                /\ history.messages[i] = message_text})
    IN  IF duplicate_count >= DUPLICATE_COUNT_LIMIT
        THEN SpamDetectionResult("duplicate", 100,
                                 GetActionByViolations(history.spam_violations))
        ELSE NoSpam

CheckDuplicates(history, message_text, current_time) ==
    LET message_lower == NormalizeOf(message_text)
        duplicate_count ==
            Cardinality({i \in Zipped(history) :
                /\ current_time - history.timestamps[i] <= DUPLICATE_TIME_WINDOW
                /\ history.messages[i] = message_lower})
    IN  IF duplicate_count >= DUPLICATE_COUNT_LIMIT
        THEN SpamDetectionResult("duplicate", 100,
                                 GetActionByViolations(history.spam_violations))
        ELSE NoSpam

\* a similarity check without the length limit
CheckSimilarMessagesAnyLength(history, message_text, current_time) ==
    LET message_lower == NormalizeOf(message_text)
        similar_count ==
            Cardinality({i \in Zipped(history) :
                /\ current_time - history.timestamps[i] <= DUPLICATE_TIME_WINDOW
                /\ IsSimilar(message_lower, history.messages[i])})
    IN  IF similar_count >= SIMILAR_COUNT_LIMIT
        THEN SpamDetectionResult("similar", 80,
                                 GetActionByViolations(history.spam_violations))
        ELSE NoSpam

CheckSimilarMessages(history, message_text, current_time) ==
    LET message_lower == NormalizeOf(message_text)
        similar_count ==
            Cardinality({i \in Zipped(history) :
                /\ current_time - history.timestamps[i] <= DUPLICATE_TIME_WINDOW
                /\ IsSimilar(message_lower, history.messages[i])
                /\ Len(message_lower) <= SIMILAR_MAX_LENGTH})
    IN  IF similar_count >= SIMILAR_COUNT_LIMIT
        THEN SpamDetectionResult("similar", 80,
                                 GetActionByViolations(history.spam_violations))
        ELSE NoSpam

CheckShortMessageSpam(history, message_text, current_time) ==
    LET message_lower == NormalizeOf(message_text)
        is_spam_pattern == HasSpamPatternOf(message_lower)
        is_short == Len(message_text) <= SHORT_MESSAGE_LENGTH
        short_messages_count ==
            Cardinality({i \in Zipped(history) :
                /\ current_time - history.timestamps[i] <= SHORT_MESSAGE_TIME_WINDOW
                /\ \/ Len(history.messages[i]) <= SHORT_MESSAGE_LENGTH
                   \/ HasSpamPatternOf(history.messages[i])})
    IN  IF ~(is_spam_pattern \/ is_short) THEN NoSpam
        ELSE IF short_messages_count >= SHORT_MESSAGE_LIMIT
        THEN SpamDetectionResult("short_spam", 70,
                                 GetActionByViolations(history.spam_violations))
        ELSE NoSpam

AddViolation(history, current_time) ==
    [history EXCEPT !.spam_violations = @ + 1,
                    !.last_violation_time = current_time]

\* a check_message that tests for duplicates before it tests for flood
CheckMessageResultDuplicateFirst(history, message_text, current_time) ==
    IF Len(message_text) = 0 \/ Len(NormalizeOf(message_text)) = 0 THEN NoSpam
    ELSE LET flood_result == CheckFlood(history, current_time)
             duplicate_result == CheckDuplicates(history, message_text, current_time)
             similar_result == CheckSimilarMessages(history, message_text, current_time)
             short_spam_result == CheckShortMessageSpam(history, message_text, current_time)
         IN  IF duplicate_result.is_spam THEN duplicate_result
             ELSE IF flood_result.is_spam THEN flood_result
             ELSE IF similar_result.is_spam THEN similar_result
             ELSE IF short_spam_result.is_spam THEN short_spam_result
             ELSE NoSpam

\* the value check_message returns
CheckMessageResult(history, message_text, current_time) ==
    IF Len(message_text) = 0 \/ Len(NormalizeOf(message_text)) = 0 THEN NoSpam
    ELSE LET flood_result == CheckFlood(history, current_time)
             duplicate_result == CheckDuplicates(history, message_text, current_time)
             similar_result == CheckSimilarMessages(history, message_text, current_time)
             short_spam_result == CheckShortMessageSpam(history, message_text, current_time)
         IN  IF flood_result.is_spam THEN flood_result
             ELSE IF duplicate_result.is_spam THEN duplicate_result
             ELSE IF similar_result.is_spam THEN similar_result
             ELSE IF short_spam_result.is_spam THEN short_spam_result
             ELSE NoSpam

\* a check_message that stores the flagged message as well
CheckMessageHistoryStoringFlagged(history, message_text, current_time) ==
    IF Len(message_text) = 0 \/ Len(NormalizeOf(message_text)) = 0 THEN history
    ELSE LET stored == [history EXCEPT
                !.messages = DequeAppend(@, NormalizeOf(message_text)),
                !.timestamps = DequeAppend(@, current_time)]
         IN  IF CheckMessageResult(history, message_text, current_time).is_spam
             THEN AddViolation(stored, current_time)
             ELSE stored

\* the user's history after check_message
CheckMessageHistory(history, message_text, current_time) ==
    IF Len(message_text) = 0 \/ Len(NormalizeOf(message_text)) = 0 THEN history
    ELSE IF CheckMessageResult(history, message_text, current_time).is_spam
    THEN AddViolation(history, current_time)
    ELSE [history EXCEPT
            !.messages = DequeAppend(@, NormalizeOf(message_text)),
            !.timestamps = DequeAppend(@, current_time)]

\* check_message(user_id, message_text), called delay seconds after the last
\* clock reading
CheckMessage(user_id, message_text, delay) ==
    LET current_time == now + delay
        history == user_histories[user_id]
    IN  /\ calls < MaxCalls
        /\ now' = current_time
        /\ calls' = calls + 1
        /\ user_histories' = [user_histories EXCEPT ![user_id] =
                CheckMessageHistory(history, message_text, current_time)]
        /\ ret' = [op |-> "check_message", user_id |-> user_id,
                   text |-> message_text, time |-> current_time,
                   result |-> CheckMessageResult(history, message_text, current_time)]
        /\ flagged' = [flagged EXCEPT ![user_id] =
                IF CheckMessageResult(history, message_text, current_time).is_spam
                THEN @ + 1 ELSE @]
        /\ UNCHANGED <<sample, sent_prompts, tasks, dbVars>>

\* cleanup_old_data(): a removed entry reads as a fresh UserMessageHistory again
CleanupOldData(delay) ==
    LET current_time == now + delay
        users_to_remove ==
            {u \in SpamUsers :
                /\ Len(user_histories[u].timestamps) > 0
                /\ current_time
                     - user_histories[u].timestamps[Len(user_histories[u].timestamps)]
                   > INACTIVITY_SECONDS}
    IN  /\ calls < MaxCalls
        /\ now' = current_time
        /\ calls' = calls + 1
        /\ user_histories' = [u \in SpamUsers |->
                IF u \in users_to_remove THEN UserMessageHistory
                ELSE user_histories[u]]
        /\ ret' = [op |-> "cleanup_old_data", user_id |-> 0, text |-> <<>>,
                   time |-> current_time, result |-> NoSpam]
        /\ UNCHANGED <<sample, sent_prompts, tasks, flagged, dbVars>>

InitSpam ==
    /\ now = 0
    /\ user_histories = [u \in SpamUsers |-> UserMessageHistory]
    /\ sample \in SpamSamples
    /\ calls = 0
    /\ flagged = [u \in SpamUsers |-> 0]
    /\ ret = [op |-> "init", user_id |-> 0, text |-> <<>>, time |-> 0,
              result |-> NoSpam]
    /\ users = [u \in UserIds |-> NoUser]
    /\ violations = <<>>
    /\ appeals = <<>>
    /\ bot_config = BotConfig
    /\ utc_offset = 0
    /\ sent_prompts = {}
    /\ tasks = <<>>

NextSpam ==
    \/ \E u \in SpamUsers, t \in sample.texts, d \in sample.delays :
          CheckMessage(u, t, d)
    \/ \E d \in sample.sweeps : CleanupOldData(d)

SpecSpam == InitSpam /\ [][NextSpam]_vars

(***************************************************************************)
(* Properties of the spam heuristics, checked under SpecSpam               *)
(***************************************************************************)

\* C3: the action of a flagged message is read from spam_violations before
\* the increment (0 warn, 1 mute, 2 or more ban) and the flag adds one to the
\* counter; an unflagged message leaves the counter alone; the counter goes
\* back to 0 only when cleanup_old_data removes a history whose last stored
\* message is more than 86400 seconds old, which restarts the ladder at warn.
C3_SpamLadder ==
    [][calls' = calls + 1 =>
        \A u \in SpamUsers :
            LET before == user_histories[u].spam_violations
                after == user_histories'[u].spam_violations
                stamps == user_histories[u].timestamps
            IN  IF ret'.op = "check_message" /\ ret'.user_id = u
                   /\ ret'.result.is_spam
                THEN /\ ret'.result.action =
                          (CASE before = 0 -> "warn"
                             [] before = 1 -> "mute"
                             [] OTHER -> "ban")
                     /\ after = before + 1
                ELSE IF ret'.op = "cleanup_old_data"
                THEN \/ after = before
                     \/ /\ after = 0
                        /\ Len(stamps) > 0
                        /\ ret'.time - stamps[Len(stamps)] > 86400
                ELSE after = before]_vars

\* C3 as stated: the k-th flagged message of a user receives warn for k = 1,
\* mute for k = 2 and ban for every later k.
C3_Original ==
    (ret.op = "check_message" /\ ret.result.is_spam) =>
        ret.result.action =
            (CASE flagged[ret.user_id] = 1 -> "warn"
               [] flagged[ret.user_id] = 2 -> "mute"
               [] OTHER -> "ban")

\* C3 witness: a user flagged before is flagged again after a sweep removed
\* the history, and receives warn
C3_Witness ==
    /\ ret.op = "check_message"
    /\ ret.result.is_spam
    /\ ret.result.action = "warn"
    /\ flagged[ret.user_id] = 2
    /\ user_histories[ret.user_id].spam_violations = 1

\* C4: a non-blank message is flagged as flood, with confidence 0.9, exactly
\* when at least 5 stored messages of the user are at most 60 seconds old;
\* the flagged message is not stored. From an empty history the first five
\* messages cannot be flagged as flood and the sixth is.
C4_FloodAfterLimit ==
    [][(calls' = calls + 1 /\ ret'.op = "check_message") =>
        LET h == user_histories[ret'.user_id]
            recent == Cardinality({i \in 1..Len(h.timestamps) :
                          ret'.time - h.timestamps[i] <= 60})
            blank == Len(NormalizeOf(ret'.text)) = 0
        IN  /\ (ret'.result.spam_type = "flood") <=> (~blank /\ recent >= 5)
            /\ Len(h.timestamps) < 5 => ret'.result.spam_type # "flood"
            /\ ret'.result.spam_type = "flood" =>
                  /\ ret'.result.is_spam
                  /\ ret'.result.confidence = 90
                  /\ user_histories'[ret'.user_id].messages = h.messages
                  /\ user_histories'[ret'.user_id].timestamps = h.timestamps]_vars

\* C4 as stated: the fifth of five messages sent within 10 seconds from an
\* empty history, none tripping another heuristic, is flagged as flood with
\* confidence 0.9.
C4_Original ==
    [][(/\ calls' = calls + 1
        /\ ret'.op = "check_message"
        /\ Len(NormalizeOf(ret'.text)) > 0
        /\ flagged[ret'.user_id] = 0
        /\ Len(user_histories[ret'.user_id].timestamps) = 4
        /\ \A i \in 1..4 :
              ret'.time - user_histories[ret'.user_id].timestamps[i] <= 10
        /\ ret'.result.spam_type \notin {"duplicate", "similar", "short_spam"})
       => (ret'.result.spam_type = "flood" /\ ret'.result.confidence = 90)]_vars

\* C4 witness: the sixth message within 10 seconds is the first one flagged
C4_Witness ==
    /\ ret.op = "check_message"
    /\ ret.result.spam_type = "flood"
    /\ calls = 6
    /\ flagged[ret.user_id] = 1
    /\ Len(user_histories[ret.user_id].timestamps) = 5
    /\ ret.time - user_histories[ret.user_id].timestamps[1] <= 10

\* C5: with no flood, a non-blank message whose normalized text equals at
\* least two stored entries at most 300 seconds old is flagged as duplicate
\* with confidence 1.0 and is not stored; no message is flagged as duplicate
\* with fewer such entries, so older entries do not count; and while the
\* history holds nothing but copies of the text, fewer than two of them
\* recent, the message is stored without a flag.
C5_DuplicateThird ==
    [][(calls' = calls + 1 /\ ret'.op = "check_message"
        /\ Len(NormalizeOf(ret'.text)) > 0) =>
        LET h == user_histories[ret'.user_id]
            h2 == user_histories'[ret'.user_id]
            m == NormalizeOf(ret'.text)
            fresh == {i \in 1..Len(h.messages) :
                        ret'.time - h.timestamps[i] <= 300 /\ h.messages[i] = m}
            flood == Cardinality({i \in 1..Len(h.timestamps) :
                        ret'.time - h.timestamps[i] <= 60}) >= 5
        IN  /\ (~flood /\ Cardinality(fresh) >= 2) =>
                  /\ ret'.result.is_spam
                  /\ ret'.result.spam_type = "duplicate"
                  /\ ret'.result.confidence = 100
                  /\ h2.messages = h.messages
                  /\ h2.timestamps = h.timestamps
            /\ ret'.result.spam_type = "duplicate" => Cardinality(fresh) >= 2
            /\ ((\A i \in 1..Len(h.messages) : h.messages[i] = m)
                  /\ Cardinality(fresh) < 2) =>
                  /\ ~ret'.result.is_spam
                  /\ h2.messages = Append(h.messages, m)
                  /\ h2.timestamps = Append(h.timestamps, ret'.time)]_vars

\* C5 witness: the third copy of a text, sent in another case and with
\* surrounding spaces, is flagged and the history keeps the two earlier copies
C5_Witness ==
    /\ ret.op = "check_message"
    /\ ret.result.spam_type = "duplicate"
    /\ ret.result.confidence = 100
    /\ ret.text # NormalizeOf(ret.text)
    /\ calls = 3
    /\ user_histories[ret.user_id].messages =
          <<NormalizeOf(ret.text), NormalizeOf(ret.text)>>

\* C6: a message is flagged as similar, with confidence 0.8, exactly when
\* neither flood nor duplicate applies, its normalized text has at most 20
\* characters and at least two stored entries at most 300 seconds old have a
\* similarity ratio of at least 0.8 to it; a longer text is never flagged as
\* similar.
C6_SimilarExactlyWhen ==
    [][(calls' = calls + 1 /\ ret'.op = "check_message") =>
        LET h == user_histories[ret'.user_id]
            m == NormalizeOf(ret'.text)
            flood == Cardinality({i \in 1..Len(h.timestamps) :
                        ret'.time - h.timestamps[i] <= 60}) >= 5
            duplicate == Cardinality({i \in 1..Len(h.messages) :
                        ret'.time - h.timestamps[i] <= 300
                        /\ h.messages[i] = m}) >= 2
            near == {i \in 1..Len(h.messages) :
                        /\ ret'.time - h.timestamps[i] <= 300
                        /\ LET r == Ratio(m, h.messages[i])
                           IN  r[1] * 10 >= 8 * r[2]}
        IN  /\ (ret'.result.spam_type = "similar") <=>
                  (/\ ~flood
                   /\ ~duplicate
                   /\ Len(m) <= 20
                   /\ Cardinality(near) >= 2)
            /\ ret'.result.spam_type = "similar" =>
                  (ret'.result.is_spam /\ ret'.result.confidence = 80)
            /\ Len(m) > 20 => ret'.result.spam_type # "similar"]_vars

\* C6 witness: a message that differs from two stored entries is flagged as
\* similar
C6_Witness ==
    /\ ret.op = "check_message"
    /\ ret.result.spam_type = "similar"
    /\ Len(user_histories[ret.user_id].messages) >= 2
    /\ \A i \in 1..Len(user_histories[ret.user_id].messages) :
          user_histories[ret.user_id].messages[i] # NormalizeOf(ret.text)

\* C7: a flagged message is not appended to the history and adds one to
\* spam_violations; a non-blank message that no heuristic flags is appended
\* (normalized text and arrival time) and changes no counter; a blank
\* message is not flagged, not appended and changes nothing.
C7_SideEffects ==
    [][(calls' = calls + 1 /\ ret'.op = "check_message") =>
        LET h == user_histories[ret'.user_id]
            h2 == user_histories'[ret'.user_id]
            m == NormalizeOf(ret'.text)
        IN  IF Len(m) = 0
            THEN ~ret'.result.is_spam /\ h2 = h
            ELSE IF ret'.result.is_spam
            THEN /\ h2.messages = h.messages
                 /\ h2.timestamps = h.timestamps
                 /\ h2.spam_violations = h.spam_violations + 1
            ELSE /\ h2.messages =
                      Append(IF Len(h.messages) >= 20 THEN Tail(h.messages)
                             ELSE h.messages, m)
                 /\ h2.timestamps =
                      Append(IF Len(h.timestamps) >= 20 THEN Tail(h.timestamps)
                             ELSE h.timestamps, ret'.time)
                 /\ h2.spam_violations = h.spam_violations
                 /\ h2.last_violation_time = h.last_violation_time]_vars

\* C7 as stated: every message that no heuristic flags is appended to the
\* history, and a flagged one is not appended and adds one to the counter.
C7_Original ==
    [][(calls' = calls + 1 /\ ret'.op = "check_message") =>
        LET h == user_histories[ret'.user_id]
            h2 == user_histories'[ret'.user_id]
        IN  IF ret'.result.is_spam
            THEN /\ h2.messages = h.messages
                 /\ h2.spam_violations = h.spam_violations + 1
            ELSE /\ Len(h2.messages) = Len(h.messages) + 1
                 /\ h2.spam_violations = h.spam_violations]_vars

\* C7 witness: after stored and flagged messages, a blank message has left
\* the history and the counter as they were
C7_Witness ==
    /\ ret.op = "check_message"
    /\ Len(ret.text) > 0
    /\ Len(NormalizeOf(ret.text)) = 0
    /\ flagged[ret.user_id] = 1
    /\ user_histories[ret.user_id].spam_violations = 1
    /\ Len(user_histories[ret.user_id].messages) = 3

(***************************************************************************)
(* ModerationBot (bot.py): bans and appeals                                *)
(***************************************************************************)
\* the chat members Telegram reports as administrator or owner, and the
\* senders of admin commands
Admins == {9}
Callers == {2, 9}
IsAdmin(caller) == caller \in Admins

APPEAL_MIN_LENGTH == 10
APPEAL_MAX_LENGTH == 1000

\* the inputs no sample is drawn for
NoSample == [texts |-> {}, delays |-> {}, sweeps |-> {}]

\* the reply of a command: its name, sender, arguments, the clock reading
\* and the outcome
Reply(op, caller, arg, result) ==
    [op |-> op, caller |-> caller, arg |-> arg, time |-> LocalNow(now),
     result |-> result]

\* time passes between two updates
Tick(delay) ==
    /\ calls < MaxCommands
    /\ calls' = calls + 1
    /\ now' = now + delay
    /\ ret' = [op |-> "tick", caller |-> 0, arg |-> delay,
               time |-> LocalNow(now + delay), result |-> "ok"]
    /\ UNCHANGED <<sample, sent_prompts, tasks, spamVars, dbVars>>

\* /ban <user_id> [minutes]
CmdBan(caller, user_id, duration) ==
    /\ calls < MaxCommands
    /\ calls' = calls + 1
    /\ IF ~IsAdmin(caller)
       THEN /\ ret' = Reply("cmd_ban", caller, <<user_id, duration>>, "admin_only")
            /\ UNCHANGED users
       ELSE /\ users' = BanUser(users, user_id, duration, now)
            /\ ret' = Reply("cmd_ban", caller, <<user_id, duration>>, "banned")
    /\ UNCHANGED <<now, sample, sent_prompts, tasks, spamVars, violations, appeals, bot_config,
                   utc_offset>>

\* /unban <user_id>
CmdUnban(caller, user_id) ==
    /\ calls < MaxCommands
    /\ calls' = calls + 1
    /\ IF ~IsAdmin(caller)
       THEN /\ ret' = Reply("cmd_unban", caller, user_id, "admin_only")
            /\ UNCHANGED users
       ELSE /\ users' = UnbanUser(users, user_id)
            /\ ret' = Reply("cmd_unban", caller, user_id, "unbanned")
    /\ UNCHANGED <<now, sample, sent_prompts, tasks, spamVars, violations, appeals, bot_config,
                   utc_offset>>

\* db.is_user_banned(user_id)
IsUserBannedCall(user_id) ==
    /\ calls < MaxCommands
    /\ calls' = calls + 1
    /\ users' = IsUserBannedUsers(users, user_id, now)
    /\ ret' = Reply("is_user_banned", 0, user_id,
                    [value |-> IsUserBanned(users, user_id, now),
                     unban_user |->
                        IsUserBannedUsers(users, user_id, now) # users])
    /\ UNCHANGED <<now, sample, sent_prompts, tasks, spamVars, violations, appeals, bot_config,
                   utc_offset>>

\* background_tasks: one round of the loop
BackgroundTasks ==
    /\ calls < MaxCommands
    /\ calls' = calls + 1
    /\ users' = CleanupExpiredBans(users, now)
    /\ ret' = Reply("cleanup_expired_bans", 0, 0,
                    Cardinality(ExpiredBans(users, now)))
    /\ UNCHANGED <<now, sample, sent_prompts, tasks, spamVars, violations, appeals, bot_config,
                   utc_offset>>

\* background_tasks as the loop that runs for as long as the bot does: a
\* round is no command of the chat, so it is not counted in calls
BackgroundLoop ==
    /\ users' = CleanupExpiredBans(users, now)
    /\ ret' = Reply("cleanup_expired_bans", 0, 0,
                    Cardinality(ExpiredBans(users, now)))
    /\ UNCHANGED <<now, calls, sample, sent_prompts, tasks, spamVars, violations,
                   appeals, bot_config, utc_offset>>

\* /appeal <text>; appeal_text is the length of " ".join(context.args),
\* 0 when there are no arguments
CmdAppeal(user_id, appeal_text) ==
    LET banned == IsUserBanned(users, user_id, now)
        appeal_id == AddAppealResult(appeals, user_id)
    IN  /\ calls < MaxCommands
        /\ calls' = calls + 1
        /\ users' = IsUserBannedUsers(users, user_id, now)
        /\ IF ~banned
           THEN /\ ret' = Reply("cmd_appeal", user_id, appeal_text,
                                [reply |-> "not_banned", appeal_id |-> 0])
                /\ UNCHANGED appeals
           ELSE IF appeal_text = 0
           THEN /\ ret' = Reply("cmd_appeal", user_id, appeal_text,
                                [reply |-> "usage", appeal_id |-> 0])
                /\ UNCHANGED appeals
           ELSE IF appeal_text < APPEAL_MIN_LENGTH
           THEN /\ ret' = Reply("cmd_appeal", user_id, appeal_text,
                                [reply |-> "too_short", appeal_id |-> 0])
                /\ UNCHANGED appeals
           ELSE IF appeal_text > APPEAL_MAX_LENGTH
           THEN /\ ret' = Reply("cmd_appeal", user_id, appeal_text,
                                [reply |-> "too_long", appeal_id |-> 0])
                /\ UNCHANGED appeals
           ELSE /\ appeals' = AddAppeal(appeals, user_id, appeal_text)
                /\ ret' = Reply("cmd_appeal", user_id, appeal_text,
                                IF appeal_id = -1
                                THEN [reply |-> "already_pending", appeal_id |-> 0]
                                ELSE [reply |-> "accepted",
                                      appeal_id |-> appeal_id])
        /\ UNCHANGED <<now, sample, sent_prompts, tasks, spamVars, violations, bot_config, utc_offset>>

\* checks that do not look at the status of the appeal
AppealCommandRefusalIgnoringStatus(caller, appeal_id) ==
    IF ~IsAdmin(caller) THEN "admin_only"
    ELSE IF appeal_id = NULL THEN "usage"
    ELSE IF ~AppealExists(appeals, appeal_id) THEN "not_found"
    ELSE ""

\* the checks /accept_appeal and /reject_appeal share:
\* the reply that ends the command early, "" when it goes on
AppealCommandRefusal(caller, appeal_id) ==
    IF ~IsAdmin(caller) THEN "admin_only"
    ELSE IF appeal_id = NULL THEN "usage"
    ELSE IF ~AppealExists(appeals, appeal_id) THEN "not_found"
    ELSE IF appeals[appeal_id].status # "pending" THEN "already_reviewed"
    ELSE ""

\* an /accept_appeal that approves at once
CmdAcceptAppealApproving(caller, appeal_id) ==
    /\ calls < MaxCommands
    /\ calls' = calls + 1
    /\ IF AppealCommandRefusal(caller, appeal_id) # ""
       THEN /\ ret' = Reply("cmd_accept_appeal", caller, appeal_id,
                            AppealCommandRefusal(caller, appeal_id))
            /\ UNCHANGED <<appeals, users>>
       ELSE /\ appeals' = UpdateAppealStatus(appeals, appeal_id, "approved",
                                             caller, "accepted")
            /\ users' = UnbanUser(users, appeals[appeal_id].user_id)
            /\ ret' = Reply("cmd_accept_appeal", caller, appeal_id, "confirm")
    /\ UNCHANGED <<now, sample, sent_prompts, tasks, spamVars, violations, bot_config,
                   utc_offset>>

\* /accept_appeal <appeal_id>: asks for /confirm_accept
CmdAcceptAppeal(caller, appeal_id) ==
    /\ calls < MaxCommands
    /\ calls' = calls + 1
    /\ IF AppealCommandRefusal(caller, appeal_id) # ""
       THEN /\ ret' = Reply("cmd_accept_appeal", caller, appeal_id,
                            AppealCommandRefusal(caller, appeal_id))
            /\ UNCHANGED sent_prompts
       ELSE /\ ret' = Reply("cmd_accept_appeal", caller, appeal_id, "confirm")
            /\ sent_prompts' = sent_prompts \cup {appeal_id}
    /\ UNCHANGED <<now, sample, tasks, spamVars, dbVars>>

\* the reason /reject_appeal stores when none is given
DEFAULT_REASON == "not given"

\* /reject_appeal <appeal_id> [reason]; reason is "" when the command has
\* no second argument
CmdRejectAppeal(caller, appeal_id, reason) ==
    /\ calls < MaxCommands
    /\ calls' = calls + 1
    /\ IF AppealCommandRefusal(caller, appeal_id) # ""
       THEN /\ ret' = Reply("cmd_reject_appeal", caller, <<appeal_id, reason>>,
                            AppealCommandRefusal(caller, appeal_id))
            /\ UNCHANGED appeals
       ELSE /\ appeals' = UpdateAppealStatus(appeals, appeal_id, "rejected",
                              caller,
                              IF reason = "" THEN DEFAULT_REASON ELSE reason)
            /\ ret' = Reply("cmd_reject_appeal", caller, <<appeal_id, reason>>,
                            "rejected")
    /\ UNCHANGED <<now, sample, sent_prompts, tasks, spamVars, users, violations,
                   bot_config, utc_offset>>

\* /confirm_accept <appeal_id>; one reply covers a missing appeal and an
\* appeal that is no longer pending. No await stands between the read of
\* the status and the two writes, so no other handler runs in between.
CmdConfirmAccept(caller, appeal_id) ==
    /\ calls < MaxCommands
    /\ calls' = calls + 1
    /\ IF ~IsAdmin(caller)
       THEN /\ ret' = Reply("cmd_confirm_accept", caller, appeal_id,
                            "admin_only")
            /\ UNCHANGED <<appeals, users>>
       ELSE IF appeal_id = NULL
       THEN /\ ret' = Reply("cmd_confirm_accept", caller, appeal_id, "usage")
            /\ UNCHANGED <<appeals, users>>
       ELSE IF ~AppealExists(appeals, appeal_id)
               \/ appeals[appeal_id].status # "pending"
       THEN /\ ret' = Reply("cmd_confirm_accept", caller, appeal_id,
                            "not_found_or_reviewed")
            /\ UNCHANGED <<appeals, users>>
       ELSE /\ appeals' = UpdateAppealStatus(appeals, appeal_id, "approved",
                                             caller, "accepted")
            /\ users' = UnbanUser(users, appeals[appeal_id].user_id)
            /\ ret' = Reply("cmd_confirm_accept", caller, appeal_id, "approved")
    /\ UNCHANGED <<now, sample, sent_prompts, tasks, spamVars, violations, bot_config,
                   utc_offset>>

\* the durations of /ban, the reasons of /reject_appeal, the lengths of
\* appeal texts and the waits between updates that are tried
BanDurations == {NULL, 0, 1}
RejectReasons == {"", "spam"}
AppealTexts == {0, 9, 10, 1000, 1001}
AppealDelays == {59, 1}
AppealIds == {NULL} \cup (1..(Len(appeals) + 1))

InitAppeal ==
    /\ now = 0
    /\ user_histories = [u \in SpamUsers |-> UserMessageHistory]
    /\ flagged = [u \in SpamUsers |-> 0]
    /\ sample = NoSample
    /\ calls = 0
    /\ ret = [op |-> "init", caller |-> 0, arg |-> 0, time |-> 0,
              result |-> "ok"]
    /\ users \in {[u \in UserIds |-> NewUser],
                  [u \in UserIds |-> IF u = 1 THEN NewUser ELSE NoUser]}
    /\ violations = <<>>
    /\ appeals = <<>>
    /\ bot_config = BotConfig
    /\ utc_offset = 0
    /\ sent_prompts = {}
    /\ tasks = <<>>

NextAppeal ==
    \/ \E d \in AppealDelays : Tick(d)
    \/ \E c \in Callers, u \in UserIds, m \in BanDurations : CmdBan(c, u, m)
    \/ \E c \in Callers, u \in UserIds : CmdUnban(c, u)
    \/ \E u \in UserIds : IsUserBannedCall(u)
    \/ BackgroundTasks
    \/ \E u \in UserIds, n \in AppealTexts : CmdAppeal(u, n)
    \/ \E c \in Callers, i \in AppealIds : CmdAcceptAppeal(c, i)
    \/ \E c \in Callers, i \in AppealIds, r \in RejectReasons :
          CmdRejectAppeal(c, i, r)
    \/ \E c \in Callers, i \in AppealIds : CmdConfirmAccept(c, i)

SpecAppeal == InitAppeal /\ [][NextAppeal]_vars

\* The bot left to itself: administrators ban, time passes, nobody writes
\* and nobody asks whether a user is banned. The loop of background_tasks
\* sleeps 300 s (60 s after an error) and starts a new round for as long as
\* is_running holds, hence the weak fairness of its rounds.
NextSweep ==
    \/ \E d \in AppealDelays : Tick(d)
    \/ \E c \in Callers, u \in UserIds, m \in BanDurations : CmdBan(c, u, m)
    \/ BackgroundLoop

SpecSweep == InitAppeal /\ [][NextSweep]_vars /\ WF_vars(BackgroundLoop)

(***************************************************************************)
(* Properties of bans and appeals, checked under SpecAppeal                *)
(***************************************************************************)

\* C8: /ban with a duration stores the time of expiry, now plus the minutes;
\* is_user_banned on a ban whose time of expiry has come (ban_until <= now)
\* clears is_banned and ban_until and returns false; on a user who is not
\* banned it returns false and changes nothing, so a query that follows an
\* auto-unban returns false again and changes nothing; on a ban that has
\* not expired it returns true and changes nothing.
C8_BanExpiry ==
    [][calls' = calls + 1 =>
        /\ (ret'.op = "cmd_ban" /\ ret'.result = "banned"
                /\ users[ret'.arg[1]].exists /\ ret'.arg[2] > 0) =>
              /\ users'[ret'.arg[1]].is_banned
              /\ users'[ret'.arg[1]].ban_until = ret'.time + 60 * ret'.arg[2]
        /\ ret'.op = "is_user_banned" =>
              LET row == users[ret'.arg]
                  row2 == users'[ret'.arg]
              IN  IF row.exists /\ row.is_banned /\ row.ban_until # NULL
                     /\ row.ban_until <= ret'.time
                  THEN /\ ret'.result.value = FALSE
                       /\ row2.is_banned = FALSE
                       /\ row2.ban_until = NULL
                       /\ \A u \in UserIds \ {ret'.arg} : users'[u] = users[u]
                  ELSE IF row.exists /\ row.is_banned
                  THEN ret'.result.value = TRUE /\ users' = users
                  ELSE ret'.result.value = FALSE /\ users' = users
        /\ (ret'.op = "is_user_banned" /\ ret.op = "is_user_banned"
                /\ ret'.arg = ret.arg /\ ret.result.value = FALSE) =>
              (ret'.result.value = FALSE /\ users' = users)]_vars

\* C8 witness: a one-minute ban is found expired exactly 60 seconds later and
\* the query has cleared it
C8_Witness ==
    /\ ret.op = "is_user_banned"
    /\ ret.result.value = FALSE
    /\ ret.result.unban_user
    /\ ret.time = 60
    /\ ~users[ret.arg].is_banned
    /\ users[ret.arg].ban_until = NULL

\* C9: /appeal creates a pending appeal and reports its new id exactly when
\* the sender is banned at that moment, has no pending appeal and the text
\* has 10 to 1000 characters; otherwise the reply names a condition that
\* fails (not banned, already pending, or a text outside that range) and no
\* appeal is created or changed.
C9_FileAppeal ==
    [][(calls' = calls + 1 /\ ret'.op = "cmd_appeal") =>
        LET u == ret'.caller
            n == ret'.arg
            banned == /\ users[u].exists
                      /\ users[u].is_banned
                      /\ (users[u].ban_until = NULL
                            \/ users[u].ban_until > ret'.time)
            pending == \E i \in 1..Len(appeals) :
                          appeals[i].user_id = u /\ appeals[i].status = "pending"
            inRange == n >= 10 /\ n <= 1000
            reply == ret'.result.reply
        IN  /\ (reply = "accepted") <=> (banned /\ ~pending /\ inRange)
            /\ reply = "accepted" =>
                  /\ Len(appeals') = Len(appeals) + 1
                  /\ ret'.result.appeal_id = Len(appeals')
                  /\ appeals'[Len(appeals')].user_id = u
                  /\ appeals'[Len(appeals')].status = "pending"
                  /\ appeals'[Len(appeals')].appeal_text = n
                  /\ \A i \in 1..Len(appeals) : appeals'[i] = appeals[i]
            /\ reply # "accepted" =>
                  /\ appeals' = appeals
                  /\ reply \in {"not_banned", "already_pending", "usage",
                                "too_short", "too_long"}
                  /\ reply = "not_banned" => ~banned
                  /\ reply = "already_pending" => pending
                  /\ reply \in {"usage", "too_short", "too_long"} => ~inRange]_vars

\* C9 witness: a banned user whose earlier appeal was decided files a text
\* of 1000 characters and gets a new id
C9_Witness ==
    /\ ret.op = "cmd_appeal"
    /\ ret.result.reply = "accepted"
    /\ ret.arg = 1000
    /\ ret.result.appeal_id = 2
    /\ appeals[1].user_id = ret.caller
    /\ appeals[2].status = "pending"

\* C10: in every reachable state each user has at most one appeal with
\* status pending.
C10_OnePendingPerUser ==
    \A u \in UserIds :
        Cardinality({i \in 1..Len(appeals) :
            appeals[i].user_id = u /\ appeals[i].status = "pending"}) <= 1

\* C10 witness: a user whose first appeal was rejected has a second one
\* pending, and the other user has an appeal pending as well
C10_Witness ==
    \E u \in UserIds :
        /\ Len(appeals) = 3
        /\ {i \in 1..3 : appeals[i].user_id = u} = {1, 3}
        /\ appeals[1].status = "rejected"
        /\ appeals[2].status = "pending"
        /\ appeals[3].status = "pending"

\* C11: /confirm_accept by an administrator on a pending appeal sets its
\* status to approved, stores the administrator's id, and leaves the user of
\* the appeal with is_banned false and ban_until NULL, touching no other
\* appeal and no other user; on a missing appeal, on one that is no longer
\* pending, or from a sender who is no administrator it is refused and
\* changes no appeal and no user. So a /confirm_accept that follows an
\* approval of the same appeal is refused.
C11_ConfirmAccept ==
    [][(calls' = calls + 1 /\ ret'.op = "cmd_confirm_accept") =>
        LET i == ret'.arg
            pending == /\ i \in 1..Len(appeals)
                       /\ appeals[i].status = "pending"
        IN  /\ IF ret'.caller \in Admins /\ pending
               THEN LET u == appeals[i].user_id
                    IN  /\ ret'.result = "approved"
                        /\ appeals'[i].status = "approved"
                        /\ appeals'[i].admin_id = ret'.caller
                        /\ appeals'[i].user_id = u
                        /\ appeals'[i].appeal_text = appeals[i].appeal_text
                        /\ Len(appeals') = Len(appeals)
                        /\ \A j \in 1..Len(appeals) :
                              j # i => appeals'[j] = appeals[j]
                        /\ users'[u].is_banned = FALSE
                        /\ users'[u].ban_until = NULL
                        /\ \A v \in UserIds \ {u} : users'[v] = users[v]
               ELSE /\ ret'.result # "approved"
                    /\ appeals' = appeals
                    /\ users' = users
            /\ (ret.op = "cmd_confirm_accept" /\ ret.result = "approved"
                    /\ ret.arg = i) => ret'.result # "approved"]_vars

\* C11 witness: an administrator has approved the pending appeal of a user
\* who was banned for a minute, and the user is no longer banned
C11_Witness ==
    /\ ret.op = "cmd_confirm_accept"
    /\ ret.result = "approved"
    /\ appeals[ret.arg].status = "approved"
    /\ appeals[ret.arg].admin_id = ret.caller
    /\ appeals[ret.arg].user_id = 2
    /\ ~users[2].is_banned
    /\ users[2].ban_until = NULL
    /\ users[1].is_banned
    /\ users[1].ban_until # NULL

\* C12 as stated: an appeal becomes approved, and a user is unbanned by
\* /confirm_accept, only when the bot has sent the confirmation prompt of
\* /accept_appeal for that appeal id before; a /confirm_accept for an appeal
\* id without such a prompt changes no user.
C12_Original ==
    [][calls' = calls + 1 =>
        /\ \A i \in 1..Len(appeals) :
              (appeals[i].status # "approved"
                    /\ appeals'[i].status = "approved") =>
                 /\ ret'.op = "cmd_confirm_accept"
                 /\ ret'.arg = i
                 /\ i \in sent_prompts
        /\ (ret'.op = "cmd_confirm_accept" /\ ret'.arg \notin sent_prompts) =>
              users' = users]_vars

\* C13: /accept_appeal writes nothing to the database: whatever the sender
\* and the appeal id (none, missing, pending or decided), every appeal and
\* every user row, and with them every status, admin id, response and ban,
\* are afterwards as they were; it replies with the confirmation prompt
\* exactly when the sender is an administrator and the appeal is pending.
C13_AcceptAppealFrame ==
    [][(calls' = calls + 1 /\ ret'.op = "cmd_accept_appeal") =>
        /\ appeals' = appeals
        /\ users' = users
        /\ violations' = violations
        /\ (ret'.result = "confirm") <=>
              /\ ret'.caller \in Admins
              /\ ret'.arg \in 1..Len(appeals)
              /\ appeals[ret'.arg].status = "pending"]_vars

\* C13 witness: the prompt has been sent for a pending appeal of a banned
\* user while another appeal is already rejected; the appeal is still
\* pending and the user still banned
C13_Witness ==
    /\ ret.op = "cmd_accept_appeal"
    /\ ret.result = "confirm"
    /\ ret.arg = 2
    /\ appeals[1].status = "rejected"
    /\ appeals[2].status = "pending"
    /\ appeals[2].admin_id = NULL
    /\ users[appeals[2].user_id].is_banned

\* C14: /reject_appeal by an administrator on a pending appeal sets its
\* status to rejected and stores the administrator's id and the reason (a
\* fixed text when none is given), leaving every other appeal and every user
\* row, the ban included, as it was; on a missing appeal it replies "not
\* found" and on an appeal that is not pending "already reviewed", and, as
\* for a sender who is no administrator or a command without an id, nothing
\* changes.
C14_RejectAppeal ==
    [][(calls' = calls + 1 /\ ret'.op = "cmd_reject_appeal") =>
        LET i == ret'.arg[1]
            reason == ret'.arg[2]
        IN  /\ users' = users
            /\ IF ret'.caller \notin Admins \/ i = NULL
               THEN /\ ret'.result \in {"admin_only", "usage"}
                    /\ appeals' = appeals
               ELSE IF i \notin 1..Len(appeals)
               THEN /\ ret'.result = "not_found"
                    /\ appeals' = appeals
               ELSE IF appeals[i].status # "pending"
               THEN /\ ret'.result = "already_reviewed"
                    /\ appeals' = appeals
               ELSE /\ ret'.result = "rejected"
                    /\ appeals'[i].status = "rejected"
                    /\ appeals'[i].admin_id = ret'.caller
                    /\ appeals'[i].admin_response =
                          (IF reason = "" THEN "not given" ELSE reason)
                    /\ appeals'[i].user_id = appeals[i].user_id
                    /\ appeals'[i].appeal_text = appeals[i].appeal_text
                    /\ Len(appeals') = Len(appeals)
                    /\ \A j \in 1..Len(appeals) :
                          j # i => appeals'[j] = appeals[j]]_vars

\* C14 witness: an administrator has rejected, with a reason, the pending
\* appeal of a user who stays banned
C14_Witness ==
    /\ ret.op = "cmd_reject_appeal"
    /\ ret.result = "rejected"
    /\ ret.arg[2] = "spam"
    /\ appeals[ret.arg[1]].status = "rejected"
    /\ appeals[ret.arg[1]].admin_id = ret.caller
    /\ appeals[ret.arg[1]].admin_response = "spam"
    /\ users[appeals[ret.arg[1]].user_id].is_banned

\* C15: approved and rejected are final: in every step, whatever command
\* of whatever sender it is, an appeal that is not pending keeps its status,
\* admin id and response (the whole row), and no appeal is removed.
C15_DecidedIsFinal ==
    [][/\ Len(appeals') >= Len(appeals)
       /\ \A i \in 1..Len(appeals) :
             appeals[i].status # "pending" => appeals'[i] = appeals[i]]_vars

\* C15 witness: with one appeal approved and another rejected, a
\* /reject_appeal aimed at the approved one has just been refused
C15_Witness ==
    /\ ret.op = "cmd_reject_appeal"
    /\ ret.result = "already_reviewed"
    /\ ret.caller \in Admins
    /\ appeals[ret.arg[1]].status = "approved"
    /\ appeals[ret.arg[1]].admin_response = "accepted"
    /\ \E j \in 1..Len(appeals) : appeals[j].status = "rejected"

\* C16 as stated: /ban of a user with a row sets is_banned, with ban_until
\* the clock plus the minutes for every duration that is given, 0 included,
\* and ban_until NULL only when no duration is given; /unban clears
\* is_banned and sets ban_until to NULL.
C16_Original ==
    [][calls' = calls + 1 =>
        /\ (ret'.op = "cmd_ban" /\ ret'.result = "banned"
                /\ users[ret'.arg[1]].exists) =>
              /\ users'[ret'.arg[1]].is_banned
              /\ users'[ret'.arg[1]].ban_until =
                    (IF ret'.arg[2] = NULL THEN NULL
                     ELSE ret'.time + 60 * ret'.arg[2])
        /\ (ret'.op = "cmd_unban" /\ ret'.result = "unbanned") =>
              /\ ~users'[ret'.arg].is_banned
              /\ users'[ret'.arg].ban_until = NULL]_vars

\* C17: a round of the ban-expiry sweep clears is_banned and ban_until of
\* exactly the users that are banned with a ban_until that is not NULL and
\* not after the clock, and leaves every other row (a ban that has not
\* expired, a permanent ban, no ban) as it was; and while the loop runs, a
\* temporary ban whose ban_until has passed does not stay: the sweep clears
\* it (or an administrator replaces it by a new ban) although the user
\* writes nothing and nobody asks whether the user is banned.
C17_Sweep ==
    /\ [][ret'.op = "cleanup_expired_bans" =>
            \A u \in UserIds :
                IF /\ users[u].exists
                   /\ users[u].is_banned
                   /\ users[u].ban_until # NULL
                   /\ users[u].ban_until <= ret'.time
                THEN users'[u] = [users[u] EXCEPT !.is_banned = FALSE,
                                                  !.ban_until = NULL]
                ELSE users'[u] = users[u]]_vars
    /\ \A u \in UserIds :
          (users[u].is_banned /\ users[u].ban_until # NULL
                /\ users[u].ban_until <= LocalNow(now))
            ~> ~(users[u].is_banned /\ users[u].ban_until # NULL
                    /\ users[u].ban_until <= LocalNow(now))

\* C17 witness: a round at the very second a one-minute ban ends has
\* cleared that ban and left the permanent ban of the other user in place
C17_Witness ==
    /\ ret.op = "cleanup_expired_bans"
    /\ ret.result = 1
    /\ ret.time = 60
    /\ \E u \in UserIds :
          /\ ~users[u].is_banned
          /\ users[u].ban_until = NULL
          /\ \E v \in UserIds \ {u} :
                users[v].is_banned /\ users[v].ban_until = NULL

\* C30 as stated, for /ban and /unban: a command of an administrator that
\* names a user without a row in table users changes nothing and is not
\* answered as a success.
C30_Original ==
    [][(calls' = calls + 1 /\ IsAdmin(ret'.caller)) =>
        /\ (ret'.op = "cmd_ban" /\ ~users[ret'.arg[1]].exists) =>
              /\ users' = users
              /\ ret'.result # "banned"
        /\ (ret'.op = "cmd_unban" /\ ~users[ret'.arg].exists) =>
              /\ users' = users
              /\ ret'.result # "unbanned"]_vars

(***************************************************************************)
(* ModerationBot (bot.py): the message pipeline                            *)
(* A message is the record of what the detectors find in its text:         *)
(* links (has_suspicious_links), banned_words (check_banned_words) and     *)
(* analysis (analyzer.analyze_message).                                    *)
(***************************************************************************)
\* an execute_moderation_action that counts a warning for every action
ExecuteModerationActionAlwaysWarning(us, user_id, action, t) ==
    LET warned == AddWarning(us, user_id)
    IN  IF action = "warn"
        THEN IF warned[user_id].warnings_count >= bot_config.WARNING_THRESHOLD
             THEN BanUser(warned, user_id, bot_config.BAN_DURATION_MINUTES, t)
             ELSE warned
        ELSE IF action = "mute"
        THEN BanUser(warned, user_id, bot_config.BAN_DURATION_MINUTES, t)
        ELSE IF action = "ban"
        THEN BanUser(warned, user_id, NULL, t)
        ELSE us

\* execute_moderation_action: the table afterwards
ExecuteModerationAction(us, user_id, action, t) ==
    IF action = "warn"
    THEN LET warned == AddWarning(us, user_id)
         IN  IF warned[user_id].warnings_count >= bot_config.WARNING_THRESHOLD
             THEN BanUser(warned, user_id, bot_config.BAN_DURATION_MINUTES, t)
             ELSE warned
    ELSE IF action = "mute"
    THEN BanUser(us, user_id, bot_config.BAN_DURATION_MINUTES, t)
    ELSE IF action = "ban"
    THEN BanUser(us, user_id, NULL, t)
    ELSE us

\* a banned-word handler that always walks the warnings ladder
HandleBannedWordsViolationByWarnings(us, vs, user_id, t) ==
    LET logged == AddViolation_db(vs, user_id, "bad_language", "delete")
        warned == AddWarning(us, user_id)
    IN  IF warned[user_id].warnings_count >= bot_config.WARNING_THRESHOLD
        THEN [users |-> BanUser(warned, user_id,
                                bot_config.BAN_DURATION_MINUTES, t),
              violations |-> logged, action |-> "ban",
              deleted |-> bot_config.AUTO_DELETE_BANNED_WORDS]
        ELSE [users |-> warned, violations |-> logged, action |-> "warn",
              deleted |-> bot_config.AUTO_DELETE_BANNED_WORDS]

\* handle_banned_words_violation: the tables afterwards and the outcome
HandleBannedWordsViolation(us, vs, user_id, t) ==
    LET logged == AddViolation_db(vs, user_id, "bad_language", "delete")
        warned == AddWarning(us, user_id)
    IN  IF bot_config.AUTO_BAN_ON_BANNED_WORDS
        THEN [users |-> BanUser(us, user_id, bot_config.BAN_DURATION_MINUTES, t),
              violations |-> logged, action |-> "ban",
              deleted |-> bot_config.AUTO_DELETE_BANNED_WORDS]
        ELSE IF warned[user_id].warnings_count >= bot_config.WARNING_THRESHOLD
        THEN [users |-> BanUser(warned, user_id,
                                bot_config.BAN_DURATION_MINUTES, t),
              violations |-> logged, action |-> "ban",
              deleted |-> bot_config.AUTO_DELETE_BANNED_WORDS]
        ELSE [users |-> warned, violations |-> logged, action |-> "warn",
              deleted |-> bot_config.AUTO_DELETE_BANNED_WORDS]

\* a link ladder that bans at the first link
HandleTrustSystemBanningFirst(us, vs, user_id, message, t) ==
    LET unhandled == [handled |-> FALSE, users |-> us, violations |-> vs,
                      action |-> "none", deleted |-> FALSE]
        counted == AddLinkViolation(us, user_id)
        violations_count == counted[user_id].link_violations_count
        logged == AddViolation_db(vs, user_id, "suspicious_links",
                      IF violations_count = 1 THEN "delete_warn" ELSE "ban")
    IN  IF ~bot_config.TRUST_SYSTEM_ENABLED \/ ~bot_config.LINK_DETECTION_ENABLED
        THEN unhandled
        ELSE IF ~message.links THEN unhandled
        ELSE IF CalculateTrustLevel(us, user_id, t) = "trusted" THEN unhandled
        ELSE IF violations_count >= 1
                /\ bot_config.BAN_ON_REPEATED_LINK_VIOLATION
        THEN [handled |-> TRUE,
              users |-> BanUser(counted, user_id,
                                bot_config.BAN_DURATION_MINUTES, t),
              violations |-> logged, action |-> "ban",
              deleted |-> bot_config.AUTO_DELETE_LINKS_FROM_NEW]
        ELSE [handled |-> TRUE, users |-> counted, violations |-> logged,
              action |-> "delete",
              deleted |-> bot_config.AUTO_DELETE_LINKS_FROM_NEW]

\* a link ladder that trusted users are not exempt from
HandleTrustSystemWithoutExemption(us, vs, user_id, message, t) ==
    LET unhandled == [handled |-> FALSE, users |-> us, violations |-> vs,
                      action |-> "none", deleted |-> FALSE]
        counted == AddLinkViolation(us, user_id)
        violations_count == counted[user_id].link_violations_count
        logged == AddViolation_db(vs, user_id, "suspicious_links",
                      IF violations_count = 1 THEN "delete_warn" ELSE "ban")
    IN  IF ~bot_config.TRUST_SYSTEM_ENABLED \/ ~bot_config.LINK_DETECTION_ENABLED
        THEN unhandled
        ELSE IF ~message.links THEN unhandled
        ELSE IF violations_count = 1
        THEN [handled |-> TRUE, users |-> counted, violations |-> logged,
              action |-> "link_warning",
              deleted |-> bot_config.AUTO_DELETE_LINKS_FROM_NEW]
        ELSE IF violations_count >= 2
                /\ bot_config.BAN_ON_REPEATED_LINK_VIOLATION
        THEN [handled |-> TRUE,
              users |-> BanUser(counted, user_id,
                                bot_config.BAN_DURATION_MINUTES, t),
              violations |-> logged, action |-> "ban",
              deleted |-> bot_config.AUTO_DELETE_LINKS_FROM_NEW]
        ELSE [handled |-> TRUE, users |-> counted, violations |-> logged,
              action |-> "delete",
              deleted |-> bot_config.AUTO_DELETE_LINKS_FROM_NEW]

\* handle_trust_system: whether the message was handled, the tables
\* afterwards and the outcome
HandleTrustSystem(us, vs, user_id, message, t) ==
    LET unhandled == [handled |-> FALSE, users |-> us, violations |-> vs,
                      action |-> "none", deleted |-> FALSE]
        counted == AddLinkViolation(us, user_id)
        violations_count == counted[user_id].link_violations_count
        logged == AddViolation_db(vs, user_id, "suspicious_links",
                      IF violations_count = 1 THEN "delete_warn" ELSE "ban")
    IN  IF ~bot_config.TRUST_SYSTEM_ENABLED \/ ~bot_config.LINK_DETECTION_ENABLED
        THEN unhandled
        ELSE IF ~message.links THEN unhandled
        ELSE IF CalculateTrustLevel(us, user_id, t) = "trusted" THEN unhandled
        ELSE IF violations_count = 1
        THEN [handled |-> TRUE, users |-> counted, violations |-> logged,
              action |-> "link_warning",
              deleted |-> bot_config.AUTO_DELETE_LINKS_FROM_NEW]
        ELSE IF violations_count >= 2
                /\ bot_config.BAN_ON_REPEATED_LINK_VIOLATION
        THEN [handled |-> TRUE,
              users |-> BanUser(counted, user_id,
                                bot_config.BAN_DURATION_MINUTES, t),
              violations |-> logged, action |-> "ban",
              deleted |-> bot_config.AUTO_DELETE_LINKS_FROM_NEW]
        ELSE [handled |-> TRUE, users |-> counted, violations |-> logged,
              action |-> "delete",
              deleted |-> bot_config.AUTO_DELETE_LINKS_FROM_NEW]

\* a handle_ai_analysis that treats a failed analysis as a violation
HandleAiAnalysisFailClosed(us, vs, user_id, message, user, t) ==
    LET analysis == message.analysis
        recommended_action == GetRecommendedAction(analysis, user.warnings_count)
    IN  IF analysis = NoAnalysis
        THEN [users |-> ExecuteModerationAction(us, user_id, "warn", t),
              violations |-> AddViolation_db(vs, user_id, "ai_detected", "warn"),
              action |-> "warn", deleted |-> TRUE]
        ELSE IF ~IsViolationSignificant(analysis)
        THEN [users |-> us, violations |-> vs, action |-> "none",
              deleted |-> FALSE]
        ELSE [users |-> ExecuteModerationAction(us, user_id,
                                                recommended_action, t),
              violations |-> AddViolation_db(vs, user_id, "ai_detected",
                                             recommended_action),
              action |-> recommended_action, deleted |-> TRUE]

\* handle_ai_analysis: the tables afterwards and the outcome; user is the
\* row create_or_update_user returned at the start of handle_message
HandleAiAnalysis(us, vs, user_id, message, user, t) ==
    LET analysis == message.analysis
        recommended_action == GetRecommendedAction(analysis, user.warnings_count)
    IN  IF analysis = NoAnalysis \/ ~IsViolationSignificant(analysis)
        THEN [users |-> us, violations |-> vs, action |-> "none",
              deleted |-> FALSE]
        ELSE [users |-> ExecuteModerationAction(us, user_id,
                                                recommended_action, t),
              violations |-> AddViolation_db(vs, user_id, "ai_detected",
                                             recommended_action),
              action |-> recommended_action, deleted |-> TRUE]

\* a handle_message that goes on to the next check after a check has acted
HandleMessageEveryCheck(user_id, message) ==
    LET user == CreateOrUpdateUser(users, user_id)[user_id]
        counted == UpdateTrustLevel(
                       UpdateUserActivity(CreateOrUpdateUser(users, user_id),
                                          user_id),
                       user_id, now)
        banned == IsUserBanned(counted, user_id, now)
        checked == IsUserBannedUsers(counted, user_id, now)
        trust == HandleTrustSystem(checked, violations, user_id, message, now)
        words == IF message.banned_words
                 THEN HandleBannedWordsViolation(trust.users, trust.violations,
                                                 user_id, now)
                 ELSE [users |-> trust.users, violations |-> trust.violations,
                       action |-> trust.action, deleted |-> trust.deleted]
        ai == IF bot_config.USE_OPENAI_ANALYSIS
              THEN HandleAiAnalysis(words.users, words.violations, user_id,
                                    message, user, now)
              ELSE words
        path == IF trust.handled THEN "links"
                ELSE IF message.banned_words THEN "banned_words"
                ELSE IF bot_config.USE_OPENAI_ANALYSIS THEN "ai"
                ELSE "clean"
    IN  /\ calls < MaxUpdates
        /\ calls' = calls + 1
        /\ IF banned
           THEN /\ users' = checked
                /\ violations' = violations
                /\ ret' = Reply("handle_message", user_id, message,
                                [path |-> "banned", action |-> "delete",
                                 deleted |-> TRUE, consulted |-> <<>>])
           ELSE /\ users' = ai.users
                /\ violations' = ai.violations
                /\ ret' = Reply("handle_message", user_id, message,
                                [path |-> path, action |-> ai.action,
                                 deleted |-> ai.deleted,
                                 consulted |-> <<"links", "banned_words", "ai">>])
        /\ UNCHANGED <<now, sample, sent_prompts, tasks, spamVars, appeals, bot_config, utc_offset>>

\* a handle_message that asks the classifier before the banned-word matcher
HandleMessageClassifierFirst(user_id, message) ==
    LET user == CreateOrUpdateUser(users, user_id)[user_id]
        counted == UpdateTrustLevel(
                       UpdateUserActivity(CreateOrUpdateUser(users, user_id),
                                          user_id),
                       user_id, now)
        banned == IsUserBanned(counted, user_id, now)
        checked == IsUserBannedUsers(counted, user_id, now)
        trust == HandleTrustSystem(checked, violations, user_id, message, now)
        words == HandleBannedWordsViolation(checked, violations, user_id, now)
        ai == HandleAiAnalysis(checked, violations, user_id, message, user, now)
        links_consulted ==
            IF bot_config.TRUST_SYSTEM_ENABLED /\ bot_config.LINK_DETECTION_ENABLED
            THEN <<"links">> ELSE <<>>
        ai_consulted == Append(links_consulted, "ai")
        done(path, r, consulted) ==
            /\ users' = r.users
            /\ violations' = r.violations
            /\ ret' = Reply("handle_message", user_id, message,
                            [path |-> path, action |-> r.action,
                             deleted |-> r.deleted, consulted |-> consulted])
        same == [users |-> checked, violations |-> violations,
                 action |-> "none", deleted |-> FALSE]
    IN  /\ calls < MaxUpdates
        /\ calls' = calls + 1
        /\ IF banned
           THEN done("banned", [same EXCEPT !.action = "delete",
                                            !.deleted = TRUE], <<>>)
           ELSE IF trust.handled THEN done("links", trust, links_consulted)
           ELSE IF bot_config.USE_OPENAI_ANALYSIS /\ ai.action # "none"
           THEN done("ai", ai, ai_consulted)
           ELSE IF message.banned_words
           THEN done("banned_words", words,
                     Append(ai_consulted, "banned_words"))
           ELSE done("clean", same, Append(ai_consulted, "banned_words"))
        /\ UNCHANGED <<now, sample, sent_prompts, tasks, spamVars, appeals, bot_config, utc_offset>>

\* handle_message; consulted lists the detectors the handler called, in the
\* order of the calls
HandleMessage(user_id, message) ==
    LET user == CreateOrUpdateUser(users, user_id)[user_id]
        counted == UpdateTrustLevel(
                       UpdateUserActivity(CreateOrUpdateUser(users, user_id),
                                          user_id),
                       user_id, now)
        banned == IsUserBanned(counted, user_id, now)
        checked == IsUserBannedUsers(counted, user_id, now)
        trust == HandleTrustSystem(checked, violations, user_id, message, now)
        words == HandleBannedWordsViolation(checked, violations, user_id, now)
        ai == HandleAiAnalysis(checked, violations, user_id, message, user, now)
        links_consulted ==
            IF bot_config.TRUST_SYSTEM_ENABLED /\ bot_config.LINK_DETECTION_ENABLED
            THEN <<"links">> ELSE <<>>
        words_consulted == Append(links_consulted, "banned_words")
        done(path, r, consulted) ==
            /\ users' = r.users
            /\ violations' = r.violations
            /\ ret' = Reply("handle_message", user_id, message,
                            [path |-> path, action |-> r.action,
                             deleted |-> r.deleted, consulted |-> consulted])
        same == [users |-> checked, violations |-> violations,
                 action |-> "none", deleted |-> FALSE]
    IN  /\ calls < MaxUpdates
        /\ calls' = calls + 1
        /\ IF banned
           THEN done("banned", [same EXCEPT !.action = "delete",
                                            !.deleted = TRUE], <<>>)
           ELSE IF trust.handled THEN done("links", trust, links_consulted)
           ELSE IF message.banned_words
           THEN done("banned_words", words, words_consulted)
           ELSE IF bot_config.USE_OPENAI_ANALYSIS
           THEN done("ai", ai, Append(words_consulted, "ai"))
           ELSE done("clean", same, words_consulted)
        /\ UNCHANGED <<now, sample, sent_prompts, tasks, spamVars, appeals, bot_config, utc_offset>>

\* handle_chat_member_update; joined says that the member went from left or
\* kicked to member
HandleChatMemberUpdate(user_id, joined) ==
    /\ calls < MaxUpdates
    /\ calls' = calls + 1
    /\ users' = IF joined
                THEN SetUserJoinedChat(CreateOrUpdateUser(users, user_id),
                                       user_id, now)
                ELSE CreateOrUpdateUser(users, user_id)
    /\ ret' = Reply("handle_chat_member_update", user_id, joined, "ok")
    /\ UNCHANGED <<now, sample, sent_prompts, tasks, spamVars, violations, appeals, bot_config,
                   utc_offset>>

\* db.calculate_trust_level(user_id)
CalculateTrustLevelCall(user_id) ==
    /\ calls < MaxUpdates
    /\ calls' = calls + 1
    /\ ret' = Reply("calculate_trust_level", 0, user_id,
                    CalculateTrustLevel(users, user_id, now))
    /\ UNCHANGED <<now, sample, sent_prompts, tasks, spamVars, dbVars>>

\* /warn <user_id>; add_warning fails for a user without a row
CmdWarn(caller, user_id) ==
    /\ calls < MaxUpdates
    /\ calls' = calls + 1
    /\ IF ~IsAdmin(caller)
       THEN /\ ret' = Reply("cmd_warn", caller, user_id, "admin_only")
            /\ UNCHANGED users
       ELSE IF AddWarningRaises(users, user_id)
       THEN /\ ret' = Reply("cmd_warn", caller, user_id, "error")
            /\ UNCHANGED users
       ELSE /\ users' = AddWarning(users, user_id)
            /\ ret' = Reply("cmd_warn", caller, user_id, "warned")
    /\ UNCHANGED <<now, sample, sent_prompts, tasks, spamVars, violations, appeals, bot_config,
                   utc_offset>>

\* the messages that are tried
MsgPlain == [links |-> FALSE, banned_words |-> FALSE, analysis |-> NoAnalysis]
MsgLinks == [MsgPlain EXCEPT !.links = TRUE]
MsgBannedWords == [MsgPlain EXCEPT !.banned_words = TRUE]
MsgLinksAndWords == [MsgPlain EXCEPT !.links = TRUE, !.banned_words = TRUE]
MsgAiWarn ==
    [MsgPlain EXCEPT !.analysis =
        [violation |-> TRUE, confidence |-> 80, action |-> "warn"]]
MsgAiBan ==
    [MsgPlain EXCEPT !.analysis =
        [violation |-> TRUE, confidence |-> 95, action |-> "ban"]]
MsgAiUnsure ==
    [MsgPlain EXCEPT !.analysis =
        [violation |-> TRUE, confidence |-> 60, action |-> "ban"]]
MsgLinksAndAi == [MsgAiBan EXCEPT !.links = TRUE]
MsgAiBanLowConfidence ==
    [MsgPlain EXCEPT !.analysis =
        [violation |-> TRUE, confidence |-> 80, action |-> "ban"]]
MsgAllViolations == [MsgAiBan EXCEPT !.links = TRUE, !.banned_words = TRUE]
MsgAiClean ==
    [MsgPlain EXCEPT !.analysis =
        [violation |-> FALSE, confidence |-> 95, action |-> "none"]]
Messages == {MsgPlain, MsgLinks, MsgBannedWords, MsgLinksAndWords, MsgAiWarn,
             MsgAiBan, MsgAiUnsure, MsgLinksAndAi, MsgAiBanLowConfidence,
             MsgAllViolations, MsgAiClean}

\* the chat members that write, the waits between updates, the local time
\* zones and the settings that are tried
Senders == {1}
PipelineDelays == {3600, 86400}
UtcOffsets == {0, 10800, -18000}
BotConfigs ==
    {BotConfig,
     [BotConfig EXCEPT !.AUTO_BAN_ON_BANNED_WORDS = FALSE],
     [BotConfig EXCEPT !.BAN_ON_REPEATED_LINK_VIOLATION = FALSE]}

\* the rows a sender can have when the bot starts: the database outlives the
\* process
StoredUsers ==
    {NoUser} \cup
    {[NewUser EXCEPT !.joined_chat_at = j, !.messages_count = m,
                     !.link_violations_count = l, !.warnings_count = w,
                     !.trust_level = IF l > 0 THEN "suspicious" ELSE "new"] :
        j \in {NULL, 0}, m \in {9}, l \in {0, 1}, w \in {0, 2}}
StartTimes == {18000, 3 * SECONDS_PER_DAY - 3600}

Init ==
    /\ now \in StartTimes
    /\ user_histories = [u \in SpamUsers |-> UserMessageHistory]
    /\ flagged = [u \in SpamUsers |-> 0]
    /\ sample = NoSample
    /\ calls = 0
    /\ ret = [op |-> "init", caller |-> 0, arg |-> 0, time |-> 0,
              result |-> "ok"]
    /\ \E row \in StoredUsers :
          users = [u \in UserIds |-> IF u \in Senders THEN row ELSE NoUser]
    /\ violations = <<>>
    /\ appeals = <<>>
    /\ bot_config \in BotConfigs
    /\ utc_offset \in UtcOffsets
    /\ sent_prompts = {}
    /\ tasks = <<>>

Next ==
    \/ \E d \in PipelineDelays : calls < MaxUpdates /\ Tick(d)
    \/ \E u \in Senders, m \in Messages : HandleMessage(u, m)
    \/ \E u \in Senders, j \in BOOLEAN : HandleChatMemberUpdate(u, j)
    \/ \E u \in Senders : CalculateTrustLevelCall(u)
    \/ \E c \in Callers, u \in Senders : CmdWarn(c, u)

Spec == Init /\ [][Next]_vars

(***************************************************************************)
(* Properties of the trust level and of the message pipeline, checked      *)
(* under Spec                                                              *)
(***************************************************************************)

\* C1: for a user with joined_chat_at recorded, calculate_trust_level
\* returns trusted whenever the days in chat and the message count reach
\* their thresholds, with or without link violations; it returns suspicious
\* only when they do not both reach them and there is a link violation, and
\* new otherwise. The days in chat are the whole days from joined_chat_at to
\* the local clock.
C1_TrustedFirst ==
    ret.op = "calculate_trust_level" =>
        LET row == users[ret.arg]
            days == (ret.time - row.joined_chat_at) \div 86400
            tenure == /\ days >= bot_config.TRUST_DAYS_THRESHOLD
                      /\ row.messages_count >= bot_config.TRUST_MESSAGES_THRESHOLD
        IN  IF ~row.exists \/ row.joined_chat_at = NULL
            THEN ret.result = "new"
            ELSE /\ tenure => ret.result = "trusted"
                 /\ (~tenure /\ row.link_violations_count >= 1) =>
                        ret.result = "suspicious"
                 /\ (~tenure /\ row.link_violations_count = 0) =>
                        ret.result = "new"

\* C1 as stated: a user with joined_chat_at recorded who reaches both
\* thresholds and has a link violation evaluates to suspicious.
C1_Original ==
    (/\ ret.op = "calculate_trust_level"
     /\ users[ret.arg].exists
     /\ users[ret.arg].joined_chat_at # NULL
     /\ (ret.time - users[ret.arg].joined_chat_at) \div 86400
            >= bot_config.TRUST_DAYS_THRESHOLD
     /\ users[ret.arg].messages_count >= bot_config.TRUST_MESSAGES_THRESHOLD
     /\ users[ret.arg].link_violations_count >= 1)
    => ret.result = "suspicious"

\* C1 witness: a user with a link violation, ten messages and three days in
\* the chat evaluates to trusted
C1_Witness ==
    /\ ret.op = "calculate_trust_level"
    /\ ret.result = "trusted"
    /\ users[ret.arg].link_violations_count = 1
    /\ users[ret.arg].messages_count = 10
    /\ (ret.time - users[ret.arg].joined_chat_at) \div 86400 = 3

\* C2: with AUTO_BAN_ON_BANNED_WORDS on, a banned-word violation bans the
\* user for BAN_DURATION_MINUTES and leaves the warnings counter as it was;
\* with it off, the violation adds one warning and the outcome is ban when
\* the new total is at least WARNING_THRESHOLD and warn otherwise. Neither
\* case reads or changes the link violations.
C2_BannedWordsOutcome ==
    [][(calls' = calls + 1 /\ ret'.op = "handle_message"
            /\ ret'.result.path = "banned_words") =>
        LET u == ret'.caller
            w == users[u].warnings_count
            row2 == users'[u]
            expiry == ret'.time + 60 * bot_config.BAN_DURATION_MINUTES
        IN  /\ row2.link_violations_count = users[u].link_violations_count
            /\ IF bot_config.AUTO_BAN_ON_BANNED_WORDS
               THEN /\ ret'.result.action = "ban"
                    /\ row2.is_banned
                    /\ row2.ban_until = expiry
                    /\ row2.warnings_count = w
               ELSE /\ row2.warnings_count = w + 1
                    /\ IF w + 1 >= bot_config.WARNING_THRESHOLD
                       THEN /\ ret'.result.action = "ban"
                            /\ row2.is_banned
                            /\ row2.ban_until = expiry
                       ELSE /\ ret'.result.action = "warn"
                            /\ ~row2.is_banned]_vars

\* C2 as stated: a banned-word violation adds one warning, and the outcome
\* is ban when the new total is at least WARNING_THRESHOLD and warn
\* otherwise.
C2_Original ==
    [][(calls' = calls + 1 /\ ret'.op = "handle_message"
            /\ ret'.result.path = "banned_words") =>
        LET u == ret'.caller
            w == users[u].warnings_count
        IN  /\ users'[u].warnings_count = w + 1
            /\ IF w + 1 >= bot_config.WARNING_THRESHOLD
               THEN ret'.result.action = "ban" /\ users'[u].is_banned
               ELSE ret'.result.action = "warn" /\ ~users'[u].is_banned]_vars

\* C2 witness: with the automatic ban on, a user without warnings is banned
\* for a message with banned words
C2_Witness ==
    /\ ret.op = "handle_message"
    /\ ret.result.path = "banned_words"
    /\ bot_config.AUTO_BAN_ON_BANNED_WORDS
    /\ users[ret.caller].warnings_count = 0
    /\ users[ret.caller].link_violations_count = 1
    /\ users[ret.caller].is_banned

\* C18: with the trust system and the link detection on, a message with a
\* disallowed link from a sender who is not banned and whose trust level,
\* evaluated with this message counted, is not trusted, is handled by the
\* link ladder: the link violations go up by one and the message is deleted
\* (AUTO_DELETE_LINKS_FROM_NEW); when the new count is 1 the sender is
\* warned and not banned; when it is 2 or more and
\* BAN_ON_REPEATED_LINK_VIOLATION is on the sender is banned for
\* BAN_DURATION_MINUTES, and when it is off the sender is not banned. The
\* warnings counter is neither read nor changed.
C18_LinkLadder ==
    [][(calls' = calls + 1 /\ ret'.op = "handle_message") =>
        LET u == ret'.caller
            row == users[u]
            row2 == users'[u]
            banned == /\ row.exists
                      /\ row.is_banned
                      /\ (row.ban_until = NULL \/ row.ban_until > ret'.time)
            trusted == /\ row.exists
                       /\ row.joined_chat_at # NULL
                       /\ (ret'.time - row.joined_chat_at) \div 86400
                             >= bot_config.TRUST_DAYS_THRESHOLD
                       /\ row.messages_count + 1
                             >= bot_config.TRUST_MESSAGES_THRESHOLD
            count == row.link_violations_count + 1
        IN  (ret'.arg.links /\ ~banned /\ ~trusted) =>
              /\ ret'.result.path = "links"
              /\ ret'.result.deleted
              /\ row2.link_violations_count = count
              /\ row2.warnings_count = row.warnings_count
              /\ IF count = 1
                 THEN /\ ret'.result.action = "link_warning"
                      /\ ~row2.is_banned
                 ELSE IF bot_config.BAN_ON_REPEATED_LINK_VIOLATION
                 THEN /\ ret'.result.action = "ban"
                      /\ row2.is_banned
                      /\ row2.ban_until =
                            ret'.time + 60 * bot_config.BAN_DURATION_MINUTES
                 ELSE ~row2.is_banned]_vars

\* C18 witness: a sender with two warnings and one earlier link violation
\* is banned for the second link
C18_Witness ==
    /\ ret.op = "handle_message"
    /\ ret.result.path = "links"
    /\ ret.result.action = "ban"
    /\ users[ret.caller].link_violations_count = 2
    /\ users[ret.caller].warnings_count = 2
    /\ users[ret.caller].is_banned
    /\ users[ret.caller].ban_until = ret.time + 3600

\* C19: a message with a disallowed link from a sender who is not banned
\* and whose trust level, evaluated with this message counted, is trusted,
\* is not handled by the link ladder: the link violations stay as they
\* were, no link warning and no link ban is given, and the message goes on
\* to the banned-word check and, when no banned word is found, to the AI
\* analysis, with the outcome these give: a message with nothing but the
\* link is kept and leaves the sender unbanned and the warnings unchanged.
C19_TrustedExempt ==
    [][(calls' = calls + 1 /\ ret'.op = "handle_message") =>
        LET u == ret'.caller
            row == users[u]
            row2 == users'[u]
            msg == ret'.arg
            banned == /\ row.exists
                      /\ row.is_banned
                      /\ (row.ban_until = NULL \/ row.ban_until > ret'.time)
            trusted == /\ row.exists
                       /\ row.joined_chat_at # NULL
                       /\ (ret'.time - row.joined_chat_at) \div 86400
                             >= bot_config.TRUST_DAYS_THRESHOLD
                       /\ row.messages_count + 1
                             >= bot_config.TRUST_MESSAGES_THRESHOLD
        IN  (msg.links /\ ~banned /\ trusted) =>
              /\ row2.link_violations_count = row.link_violations_count
              /\ ret'.result.action # "link_warning"
              /\ \A i \in 1..Len(violations') :
                    i > Len(violations) =>
                        violations'[i].violation_type # "suspicious_links"
              /\ ret'.result.path =
                    (IF msg.banned_words THEN "banned_words" ELSE "ai")
              /\ (~msg.banned_words /\ ~msg.analysis.violation) =>
                    /\ ret'.result.action = "none"
                    /\ ~ret'.result.deleted
                    /\ ~row2.is_banned
                    /\ row2.warnings_count = row.warnings_count
                    /\ violations' = violations
              /\ (~msg.banned_words /\ msg.analysis.violation
                     /\ msg.analysis.confidence >= 90
                     /\ msg.analysis.action = "ban") =>
                    /\ ret'.result.action = "ban"
                    /\ row2.is_banned]_vars

\* C19 witness: a trusted sender with an earlier link violation has sent a
\* message with nothing but a link; it was kept and the count is still 1
C19_Witness ==
    /\ ret.op = "handle_message"
    /\ ret.arg.links
    /\ ~ret.arg.banned_words
    /\ ret.result.path = "ai"
    /\ ret.result.action = "none"
    /\ users[ret.caller].trust_level = "trusted"
    /\ users[ret.caller].link_violations_count = 1
    /\ ~users[ret.caller].is_banned

\* C20: a banned-word violation adds one warning exactly when
\* AUTO_BAN_ON_BANNED_WORDS is off, and a significant AI violation adds one
\* warning exactly when its action is warn; with the automatic ban on, and
\* for the AI actions mute and ban, the warnings counter stays as it was.
C20_WarningsOnlyOnWarn ==
    [][(calls' = calls + 1 /\ ret'.op = "handle_message") =>
        LET u == ret'.caller
            w == users[u].warnings_count
            w2 == users'[u].warnings_count
            action == ret'.result.action
        IN  /\ ret'.result.path = "banned_words" =>
                  w2 = (IF bot_config.AUTO_BAN_ON_BANNED_WORDS
                        THEN w ELSE w + 1)
            /\ (ret'.result.path = "ai" /\ action # "none") =>
                  /\ action \in {"warn", "mute", "ban"}
                  /\ w2 = (IF action = "warn" THEN w + 1 ELSE w)]_vars

\* C20 as stated: every banned-word violation and every significant AI
\* violation adds exactly one warning, whatever the action.
C20_Original ==
    [][(calls' = calls + 1 /\ ret'.op = "handle_message"
            /\ \/ ret'.result.path = "banned_words"
               \/ ret'.result.path = "ai" /\ ret'.result.action # "none") =>
          users'[ret'.caller].warnings_count =
              users[ret'.caller].warnings_count + 1]_vars

\* C20 witness: a sender with two warnings is muted for a significant AI
\* violation and still has two warnings
C20_Witness ==
    /\ ret.op = "handle_message"
    /\ ret.result.path = "ai"
    /\ ret.result.action = "mute"
    /\ users[ret.caller].warnings_count = 2
    /\ users[ret.caller].is_banned
    /\ users[ret.caller].ban_until # NULL

\* C21: on the AI path, for a significant violation for which the classifier
\* recommends warn, the action follows the warnings the sender had before the
\* message: fewer than WARNING_THRESHOLD - 1 gives warn and one more warning;
\* exactly WARNING_THRESHOLD - 1 gives mute, a ban of BAN_DURATION_MINUTES
\* with the warnings left as they were; WARNING_THRESHOLD or more gives a ban
\* without expiry, the warnings again left as they were. From no warnings
\* and a threshold of 3 the consecutive violations give warn, warn, mute and
\* the warnings stay at 2.
C21_AiLadder ==
    [][(calls' = calls + 1 /\ ret'.op = "handle_message"
            /\ ret'.result.path = "ai"
            /\ ret'.arg.analysis.violation
            /\ ret'.arg.analysis.confidence
                   >= bot_config.OPENAI_ANALYSIS_THRESHOLD
            /\ ret'.arg.analysis.action = "warn") =>
        LET u == ret'.caller
            w == CreateOrUpdateUser(users, u)[u].warnings_count
            row2 == users'[u]
            action == ret'.result.action
        IN  /\ w < bot_config.WARNING_THRESHOLD - 1 =>
                  /\ action = "warn"
                  /\ row2.warnings_count = w + 1
                  /\ ~row2.is_banned
            /\ w = bot_config.WARNING_THRESHOLD - 1 =>
                  /\ action = "mute"
                  /\ row2.warnings_count = w
                  /\ row2.is_banned
                  /\ row2.ban_until = LocalNow(now)
                         + bot_config.BAN_DURATION_MINUTES * SECONDS_PER_MINUTE
            /\ w >= bot_config.WARNING_THRESHOLD =>
                  /\ action = "ban"
                  /\ row2.warnings_count = w
                  /\ row2.is_banned
                  /\ row2.ban_until = NULL]_vars

\* C21 as stated: a significant AI violation for which the classifier
\* recommends warn adds a warning, and when that brings the warnings to
\* WARNING_THRESHOLD or more the action is ban, so that the third violation
\* in a row bans with the warnings at 3.
C21_Original ==
    [][(calls' = calls + 1 /\ ret'.op = "handle_message"
            /\ ret'.result.path = "ai"
            /\ ret'.arg.analysis.violation
            /\ ret'.arg.analysis.confidence
                   >= bot_config.OPENAI_ANALYSIS_THRESHOLD
            /\ ret'.arg.analysis.action = "warn") =>
        LET u == ret'.caller
            w == CreateOrUpdateUser(users, u)[u].warnings_count
        IN  /\ users'[u].warnings_count = w + 1
            /\ ret'.result.action =
                  (IF w + 1 >= bot_config.WARNING_THRESHOLD
                   THEN "ban" ELSE "warn")]_vars

\* C21 witness: three significant AI violations in a row of a sender who
\* started without warnings were answered with warn, warn and mute; the
\* sender is banned and has two warnings
C21_Witness ==
    /\ Len(violations) = 3
    /\ \A i \in 1..3 : violations[i].violation_type = "ai_detected"
    /\ violations[1].action_taken = "warn"
    /\ violations[2].action_taken = "warn"
    /\ violations[3].action_taken = "mute"
    /\ ret.op = "handle_message"
    /\ ret.arg.analysis.action = "warn"
    /\ users[ret.caller].warnings_count = 2
    /\ users[ret.caller].is_banned
    /\ users[ret.caller].ban_until # NULL

\* C22 as stated, for senders more than one warning below the threshold: the
\* action for a significant AI violation is the classifier's mute or ban
\* when the confidence is at least 0.9 and the classifier asked for mute or
\* ban, and warn in every other case.
C22_Original ==
    [][(calls' = calls + 1 /\ ret'.op = "handle_message"
            /\ ret'.result.path = "ai"
            /\ IsViolationSignificant(ret'.arg.analysis)
            /\ CreateOrUpdateUser(users, ret'.caller)[ret'.caller].warnings_count
                   < bot_config.WARNING_THRESHOLD - 1) =>
        LET analysis == ret'.arg.analysis
        IN  ret'.result.action =
                (IF analysis.confidence >= HIGH_CONFIDENCE
                       /\ analysis.action \in {"mute", "ban"}
                 THEN analysis.action
                 ELSE "warn")]_vars

\* C23 as stated: the handling of every text message of a sender who is not
\* banned runs the anti-spam check on it, which either stores the message in
\* the sender's history or counts a spam violation.
C23_Original ==
    [][(calls' = calls + 1 /\ ret'.op = "handle_message"
            /\ ret'.result.path # "banned"
            /\ ret'.caller \in SpamUsers) =>
          user_histories'[ret'.caller] # user_histories[ret'.caller]]_vars

\* C24: the handling of one message walks one decision path: of the sender's
\* spam violations, warnings and link violations at most one grows, by at
\* most one, and at most one violation record is appended to what was there,
\* also for a message that has a link, a banned word and an AI violation.
C24_OnePath ==
    [][(calls' = calls + 1 /\ ret'.op = "handle_message") =>
        LET u == ret'.caller
            d_warnings == users'[u].warnings_count - users[u].warnings_count
            d_links == users'[u].link_violations_count
                           - users[u].link_violations_count
            d_spam == IF u \in SpamUsers
                      THEN user_histories'[u].spam_violations
                               - user_histories[u].spam_violations
                      ELSE 0
        IN  /\ d_warnings \in {0, 1}
            /\ d_links \in {0, 1}
            /\ d_spam \in {0, 1}
            /\ d_warnings + d_links + d_spam <= 1
            /\ Len(violations') <= Len(violations) + 1
            /\ SubSeq(violations', 1, Len(violations)) = violations]_vars

\* C24 witness: a message with a link, a banned word and an AI violation was
\* handled by the link ladder; the sender has one link violation, no warning
\* and one violation record
C24_Witness ==
    /\ ret.op = "handle_message"
    /\ ret.arg.links
    /\ ret.arg.banned_words
    /\ ret.arg.analysis.violation
    /\ ret.result.path = "links"
    /\ users[ret.caller].link_violations_count = 1
    /\ users[ret.caller].warnings_count = 0
    /\ Len(violations) = 1

\* C25: the checks run in one order and stop at the first that acts: when
\* the link ladder handles a message only the link detector was consulted;
\* when the banned-word matcher matches the classifier is not consulted;
\* the classifier is consulted only after the link detector and the
\* banned-word matcher, for a message without a banned word that the link
\* ladder did not handle.
C25_CheckOrder ==
    [][(calls' = calls + 1 /\ ret'.op = "handle_message") =>
        LET u == ret'.caller
            consulted == ret'.result.consulted
            asked == {consulted[i] : i \in 1..Len(consulted)}
            link_handled == users'[u].link_violations_count
                                > users[u].link_violations_count
        IN  /\ link_handled <=> ret'.result.path = "links"
            /\ link_handled => asked = {"links"}
            /\ (ret'.arg.banned_words /\ "banned_words" \in asked) =>
                  "ai" \notin asked
            /\ "ai" \in asked =>
                  /\ consulted = <<"links", "banned_words", "ai">>
                  /\ ~link_handled
                  /\ ~ret'.arg.banned_words
                  /\ ret'.result.path = "ai"
            /\ ret'.result.path = "banned_words" =>
                  /\ ret'.arg.banned_words
                  /\ consulted = <<"links", "banned_words">>]_vars

\* C25 witness: a message with a banned word and an AI violation that the
\* link ladder did not handle was handled by the banned-word branch after
\* the link detector and the matcher, without the classifier
C25_Witness ==
    /\ ret.op = "handle_message"
    /\ ret.arg.banned_words
    /\ ret.arg.analysis.violation
    /\ ret.result.path = "banned_words"
    /\ ret.result.consulted = <<"links", "banned_words">>
    /\ Len(violations) = 1
    /\ violations[1].violation_type = "bad_language"

\* C28: when the classifier gives no analysis (error, timeout or an answer
\* that cannot be parsed) the message is treated as when the classifier
\* reports no violation: no action, the message is kept, the warnings stay
\* as they were, no violation record is written and the sender is not
\* banned.
C28_FailOpen ==
    [][(calls' = calls + 1 /\ ret'.op = "handle_message"
            /\ ret'.result.path = "ai"
            /\ \/ ret'.arg.analysis = NoAnalysis
               \/ ~ret'.arg.analysis.violation) =>
        LET u == ret'.caller
        IN  /\ ret'.result.action = "none"
            /\ ~ret'.result.deleted
            /\ users'[u].warnings_count = users[u].warnings_count
            /\ violations' = violations
            /\ ~users'[u].is_banned]_vars

\* C28 witness: a sender with two warnings wrote a message for which the
\* classifier gave no analysis; the message was kept, the sender still has
\* two warnings, is not banned and has no violation record
C28_Witness ==
    /\ ret.op = "handle_message"
    /\ ret.arg.analysis = NoAnalysis
    /\ ret.result.path = "ai"
    /\ ret.result.action = "none"
    /\ ~ret.result.deleted
    /\ users[ret.caller].warnings_count = 2
    /\ ~users[ret.caller].is_banned
    /\ violations = <<>>

(***************************************************************************)
(* A store operation that fails while a message is handled.  Every method  *)
(* of Database opens its own connection and commits before it returns, so  *)
(* what was written before the failing call stays written.  failing names  *)
(* the method that raises sqlite3.Error when the handler calls it; the     *)
(* step is taken only when the handler does call it.                       *)
(***************************************************************************)

StoreOperations == {"add_violation", "add_warning", "ban_user"}

\* handle_message with the store failing in add_violation, add_warning or
\* ban_user
HandleMessageStoreFailure(user_id, message, failing) ==
    LET user == CreateOrUpdateUser(users, user_id)[user_id]
        counted == UpdateTrustLevel(
                       UpdateUserActivity(CreateOrUpdateUser(users, user_id),
                                          user_id),
                       user_id, now)
        banned == IsUserBanned(counted, user_id, now)
        checked == IsUserBannedUsers(counted, user_id, now)
        threshold == bot_config.WARNING_THRESHOLD
        \* handle_trust_system
        link_handled ==
            /\ bot_config.TRUST_SYSTEM_ENABLED
            /\ bot_config.LINK_DETECTION_ENABLED
            /\ message.links
            /\ CalculateTrustLevel(checked, user_id, now) # "trusted"
        link_counted == AddLinkViolation(checked, user_id)
        violations_count == link_counted[user_id].link_violations_count
        link_logged ==
            AddViolation_db(violations, user_id, "suspicious_links",
                            IF violations_count = 1 THEN "delete_warn" ELSE "ban")
        links ==
            IF failing = "add_violation"
            THEN [users |-> link_counted, violations |-> violations,
                  failed |-> TRUE,
                  deleted |-> bot_config.AUTO_DELETE_LINKS_FROM_NEW]
            ELSE [users |-> link_counted, violations |-> link_logged,
                  failed |-> /\ failing = "ban_user"
                             /\ violations_count >= 2
                             /\ bot_config.BAN_ON_REPEATED_LINK_VIOLATION,
                  deleted |-> bot_config.AUTO_DELETE_LINKS_FROM_NEW]
        \* handle_banned_words_violation
        words_logged == AddViolation_db(violations, user_id, "bad_language",
                                        "delete")
        warned == AddWarning(checked, user_id)
        words ==
            IF failing = "add_violation"
            THEN [users |-> checked, violations |-> violations,
                  failed |-> TRUE,
                  deleted |-> bot_config.AUTO_DELETE_BANNED_WORDS]
            ELSE IF bot_config.AUTO_BAN_ON_BANNED_WORDS
            THEN [users |-> checked, violations |-> words_logged,
                  failed |-> failing = "ban_user",
                  deleted |-> bot_config.AUTO_DELETE_BANNED_WORDS]
            ELSE IF failing = "add_warning"
            THEN [users |-> checked, violations |-> words_logged,
                  failed |-> TRUE,
                  deleted |-> bot_config.AUTO_DELETE_BANNED_WORDS]
            ELSE [users |-> warned, violations |-> words_logged,
                  failed |-> /\ failing = "ban_user"
                             /\ warned[user_id].warnings_count >= threshold,
                  deleted |-> bot_config.AUTO_DELETE_BANNED_WORDS]
        \* handle_ai_analysis and execute_moderation_action
        analysis == message.analysis
        recommended_action == GetRecommendedAction(analysis, user.warnings_count)
        ai_logged == AddViolation_db(violations, user_id, "ai_detected",
                                     recommended_action)
        ai ==
            IF analysis = NoAnalysis \/ ~IsViolationSignificant(analysis)
            THEN [users |-> checked, violations |-> violations,
                  failed |-> FALSE, deleted |-> FALSE]
            ELSE IF failing = "add_violation"
            THEN [users |-> checked, violations |-> violations,
                  failed |-> TRUE, deleted |-> FALSE]
            ELSE IF recommended_action = "warn"
            THEN IF failing = "add_warning"
                 THEN [users |-> checked, violations |-> ai_logged,
                       failed |-> TRUE, deleted |-> TRUE]
                 ELSE [users |-> warned, violations |-> ai_logged,
                       failed |-> /\ failing = "ban_user"
                                  /\ warned[user_id].warnings_count >= threshold,
                       deleted |-> TRUE]
            ELSE [users |-> checked, violations |-> ai_logged,
                  failed |-> /\ failing = "ban_user"
                             /\ recommended_action \in {"mute", "ban"},
                  deleted |-> TRUE]
        links_consulted ==
            IF bot_config.TRUST_SYSTEM_ENABLED /\ bot_config.LINK_DETECTION_ENABLED
            THEN <<"links">> ELSE <<>>
        words_consulted == Append(links_consulted, "banned_words")
        raised(path, r, consulted) ==
            /\ r.failed
            /\ users' = r.users
            /\ violations' = r.violations
            /\ ret' = Reply("handle_message", user_id, message,
                            [path |-> path, action |-> "error",
                             deleted |-> r.deleted, consulted |-> consulted])
    IN  /\ calls < MaxUpdates
        /\ ~banned
        /\ calls' = calls + 1
        /\ IF link_handled THEN raised("links", links, links_consulted)
           ELSE IF message.banned_words
           THEN raised("banned_words", words, words_consulted)
           ELSE /\ bot_config.USE_OPENAI_ANALYSIS
                /\ raised("ai", ai, Append(words_consulted, "ai"))
        /\ UNCHANGED <<now, sample, sent_prompts, tasks, spamVars, appeals, bot_config, utc_offset>>

\* the messages that are tried with a failing store: one for each ladder
FailureMessages == {MsgLinks, MsgBannedWords, MsgAiWarn, MsgAiBan}

InitFailure ==
    /\ Init
    /\ now = 18000
    /\ utc_offset = 0

NextFailure ==
    \/ \E u \in Senders, m \in FailureMessages : HandleMessage(u, m)
    \/ \E u \in Senders, m \in FailureMessages, f \in StoreOperations :
          HandleMessageStoreFailure(u, m, f)

SpecFailure == InitFailure /\ [][NextFailure]_vars

\* C29 as stated: when a store operation fails while a message is handled,
\* nothing of that message's violation record, counter increment and ban
\* stays written.
C29_Original ==
    [][(calls' = calls + 1 /\ ret'.op = "handle_message"
            /\ ret'.result.action = "error") =>
        LET u == ret'.caller
        IN  /\ violations' = violations
            /\ users'[u].warnings_count = users[u].warnings_count
            /\ users'[u].link_violations_count
                   = users[u].link_violations_count
            /\ users'[u].is_banned = users[u].is_banned]_vars

(***************************************************************************)
(* Handlers that suspend.  handle_message is a coroutine: it runs to its   *)
(* first await (the classifier call, or the deletion of the message in the *)
(* link and banned-word branches), and what it wrote to the store by then  *)
(* is committed.  The Application is built without concurrent_updates, so  *)
(* it awaits the handler of one update before it takes the next update     *)
(* from its queue.  The steps after the first await are taken as one.      *)
(***************************************************************************)

\* an Application that handles two updates at a time
MayDispatchConcurrently(running) == Len(running) < 2

\* Application.builder().token(...).build(): whether the next update is
\* taken from the queue, given the handlers that have not returned
MayDispatch(running) == running = <<>>

\* a handler or call returns: it is no longer among the tasks
RemoveTask(ts, i) == SubSeq(ts, 1, i - 1) \o SubSeq(ts, i + 1, Len(ts))

\* handle_message up to its first await
BeginHandleMessage(user_id, message) ==
    LET user == CreateOrUpdateUser(users, user_id)[user_id]
        counted == UpdateTrustLevel(
                       UpdateUserActivity(CreateOrUpdateUser(users, user_id),
                                          user_id),
                       user_id, now)
        banned == IsUserBanned(counted, user_id, now)
        checked == IsUserBannedUsers(counted, user_id, now)
        link_handled ==
            /\ bot_config.TRUST_SYSTEM_ENABLED
            /\ bot_config.LINK_DETECTION_ENABLED
            /\ message.links
            /\ CalculateTrustLevel(checked, user_id, now) # "trusted"
        link_counted == AddLinkViolation(checked, user_id)
        suspended(path, us) ==
            /\ users' = us
            /\ tasks' = Append(tasks,
                   [op |-> "handle_message", path |-> path,
                    user_id |-> user_id, message |-> message, user |-> user,
                    violations_count |-> us[user_id].link_violations_count])
            /\ ret' = Reply("handle_message", user_id, message,
                            [path |-> path, action |-> "await",
                             deleted |-> FALSE,
                             user_warnings |-> user.warnings_count])
        returned(path, action, deleted) ==
            /\ users' = checked
            /\ UNCHANGED tasks
            /\ ret' = Reply("handle_message", user_id, message,
                            [path |-> path, action |-> action,
                             deleted |-> deleted,
                             user_warnings |-> user.warnings_count])
    IN  /\ calls < MaxUpdates
        /\ MayDispatch(tasks)
        /\ calls' = calls + 1
        /\ IF banned THEN returned("banned", "delete", TRUE)
           ELSE IF link_handled THEN suspended("links", link_counted)
           ELSE IF message.banned_words THEN suspended("banned_words", checked)
           ELSE IF bot_config.USE_OPENAI_ANALYSIS THEN suspended("ai", checked)
           ELSE returned("clean", "none", FALSE)
        /\ UNCHANGED <<now, sample, sent_prompts, spamVars, violations, appeals, bot_config, utc_offset>>

\* handle_message from its first await to its return, for the i-th of the
\* suspended handlers
FinishHandleMessage(i) ==
    LET task == tasks[i]
        user_id == task.user_id
        links ==
            [users |-> IF task.violations_count >= 2
                          /\ bot_config.BAN_ON_REPEATED_LINK_VIOLATION
                       THEN BanUser(users, user_id,
                                    bot_config.BAN_DURATION_MINUTES, now)
                       ELSE users,
             violations |->
                 AddViolation_db(violations, user_id, "suspicious_links",
                     IF task.violations_count = 1 THEN "delete_warn" ELSE "ban"),
             action |-> IF task.violations_count = 1 THEN "link_warning"
                        ELSE IF task.violations_count >= 2
                                /\ bot_config.BAN_ON_REPEATED_LINK_VIOLATION
                        THEN "ban" ELSE "delete",
             deleted |-> bot_config.AUTO_DELETE_LINKS_FROM_NEW]
        words == HandleBannedWordsViolation(users, violations, user_id, now)
        ai == HandleAiAnalysis(users, violations, user_id, task.message,
                               task.user, now)
        r == IF task.path = "links" THEN links
             ELSE IF task.path = "banned_words" THEN words
             ELSE ai
    IN  /\ i \in 1..Len(tasks)
        /\ tasks[i].op = "handle_message"
        /\ users' = r.users
        /\ violations' = r.violations
        /\ tasks' = RemoveTask(tasks, i)
        /\ ret' = Reply("handle_message", user_id, task.message,
                        [path |-> task.path, action |-> r.action,
                         deleted |-> r.deleted,
                         user_warnings |-> task.user.warnings_count])
        /\ UNCHANGED <<now, calls, sample, sent_prompts, spamVars, appeals, bot_config, utc_offset>>

NextDispatch ==
    \/ \E d \in PipelineDelays : calls < MaxUpdates /\ Tick(d)
    \/ \E u \in Senders, m \in FailureMessages : BeginHandleMessage(u, m)
    \/ \E i \in 1..2 : FinishHandleMessage(i)

SpecDispatch == InitFailure /\ [][NextDispatch]_vars

BeginIsUserBanned(user_id) ==
    LET user == users[user_id]
        expired == /\ user.exists
                   /\ user.is_banned
                   /\ user.ban_until # NULL
                   /\ user.ban_until <= LocalNow(now)
    IN  /\ calls < MaxCommands
        /\ calls' = calls + 1
        /\ IF expired
           THEN /\ tasks' = Append(tasks,
                        [op |-> "is_user_banned", user_id |-> user_id,
                         caller |-> 0, appeal_id |-> NULL])
                /\ ret' = Reply("is_user_banned", 0, user_id,
                                [value |-> FALSE, unban_user |-> FALSE])
           ELSE /\ UNCHANGED tasks
                /\ ret' = Reply("is_user_banned", 0, user_id,
                                [value |-> IsUserBanned(users, user_id, now),
                                 unban_user |-> FALSE])
        /\ UNCHANGED <<now, sample, sent_prompts, spamVars, dbVars>>

\* is_user_banned: self.unban_user(user_id) for the ban that was read as
\* expired
FinishIsUserBanned(i) ==
    /\ i \in 1..Len(tasks)
    /\ tasks[i].op = "is_user_banned"
    /\ users' = UnbanUser(users, tasks[i].user_id)
    /\ tasks' = RemoveTask(tasks, i)
    /\ ret' = Reply("is_user_banned", 0, tasks[i].user_id,
                    [value |-> FALSE, unban_user |-> TRUE])
    /\ UNCHANGED <<now, calls, sample, sent_prompts, spamVars, violations, appeals, bot_config, utc_offset>>

\* /confirm_accept <appeal_id> up to and with update_appeal_status
BeginConfirmAccept(caller, appeal_id) ==
    /\ calls < MaxCommands
    /\ calls' = calls + 1
    /\ IF ~IsAdmin(caller)
       THEN /\ ret' = Reply("cmd_confirm_accept", caller, appeal_id,
                            "admin_only")
            /\ UNCHANGED <<appeals, tasks>>
       ELSE IF ~AppealExists(appeals, appeal_id)
               \/ appeals[appeal_id].status # "pending"
       THEN /\ ret' = Reply("cmd_confirm_accept", caller, appeal_id,
                            "not_found_or_reviewed")
            /\ UNCHANGED <<appeals, tasks>>
       ELSE /\ appeals' = UpdateAppealStatus(appeals, appeal_id, "approved",
                                             caller, "accepted")
            /\ tasks' = Append(tasks,
                    [op |-> "cmd_confirm_accept",
                     user_id |-> appeals[appeal_id].user_id,
                     caller |-> caller, appeal_id |-> appeal_id])
            /\ ret' = Reply("cmd_confirm_accept", caller, appeal_id, "success")
    /\ UNCHANGED <<now, sample, sent_prompts, spamVars, users, violations, bot_config, utc_offset>>

\* /confirm_accept: db.unban_user(appeal.user_id) and the reply
FinishConfirmAccept(i) ==
    /\ i \in 1..Len(tasks)
    /\ tasks[i].op = "cmd_confirm_accept"
    /\ users' = UnbanUser(users, tasks[i].user_id)
    /\ tasks' = RemoveTask(tasks, i)
    /\ ret' = Reply("cmd_confirm_accept", tasks[i].caller, tasks[i].appeal_id,
                    "approved")
    /\ UNCHANGED <<now, calls, sample, sent_prompts, spamVars, violations, appeals, bot_config, utc_offset>>

\* user 1 is banned, for good or for a minute, and has appealed
InitRace ==
    /\ now = 0
    /\ user_histories = [u \in SpamUsers |-> UserMessageHistory]
    /\ flagged = [u \in SpamUsers |-> 0]
    /\ sample = NoSample
    /\ calls = 0
    /\ ret = [op |-> "init", caller |-> 0, arg |-> 0, time |-> 0,
              result |-> "ok"]
    /\ utc_offset \in UtcOffsets
    /\ \E d \in BanDurations :
          users = BanUser([u \in UserIds |-> NewUser], 1, d, 0)
    /\ violations = <<>>
    /\ appeals = AddAppeal(<<>>, 1, APPEAL_MIN_LENGTH)
    /\ bot_config = BotConfig
    /\ sent_prompts = {}
    /\ tasks = <<>>

NextRace ==
    \/ \E d \in AppealDelays : Tick(d)
    \/ BackgroundLoop
    \/ \E u \in UserIds : BeginIsUserBanned(u)
    \/ \E i \in 1..MaxCommands : FinishIsUserBanned(i)
    \/ \E c \in Callers, a \in 1..Len(appeals) : BeginConfirmAccept(c, a)
    \/ \E i \in 1..MaxCommands : FinishConfirmAccept(i)
    \/ \E c \in Callers, u \in UserIds : CmdUnban(c, u)

SpecRace == InitRace /\ [][NextRace]_vars

\* C27: the sweep, the unban at query time and the unban of /confirm_accept
\* and /unban do not race, however their statements are interleaved: each
\* of them leaves the user it unbans with is_banned false and no ban_until;
\* a user who is not banned stays so and has no ban_until, whatever
\* statement of a call that began earlier comes next; once an appeal is
\* approved and the unban of its /confirm_accept has run the user is not
\* banned; and the unban of a user who is not banned changes nothing.
C27_UnbanPathsAgree ==
    [][/\ \A u \in UserIds :
             ~users[u].is_banned =>
                 ~users'[u].is_banned /\ users'[u].ban_until = NULL
       /\ \A u \in UserIds :
             (u \in ExpiredBans(users, now) /\ ret'.op = "cleanup_expired_bans") =>
                 ~users'[u].is_banned /\ users'[u].ban_until = NULL
       /\ \A i \in 1..Len(tasks) :
             tasks' = RemoveTask(tasks, i) =>
                 /\ ~users'[tasks[i].user_id].is_banned
                 /\ users'[tasks[i].user_id].ban_until = NULL
       /\ (ret'.op = "cmd_unban" /\ calls' = calls + 1 /\ IsAdmin(ret'.caller)) =>
             /\ ~users'[ret'.arg].is_banned
             /\ users'[ret'.arg].ban_until = NULL
             /\ ~users[ret'.arg].is_banned => users' = users
       /\ \A a \in 1..Len(appeals') :
             (/\ appeals'[a].status = "approved"
              /\ \A i \in 1..Len(tasks') : tasks'[i].appeal_id # a) =>
                 /\ ~users'[appeals'[a].user_id].is_banned
                 /\ users'[appeals'[a].user_id].ban_until = NULL]_vars

\* C27 witness: the ban of user 1 ran out; is_user_banned read the expired
\* ban and /confirm_accept approved the appeal, then the unban of
\* is_user_banned ran while the unban of /confirm_accept was still to
\* come; user 1 is not banned and has no ban_until
C27_Witness ==
    /\ ret.op = "is_user_banned"
    /\ ret.result.unban_user
    /\ \E i \in 1..Len(tasks) : tasks[i].op = "cmd_confirm_accept"
    /\ appeals[1].status = "approved"
    /\ ~users[1].is_banned
    /\ users[1].ban_until = NULL
    /\ now > 0

(***************************************************************************)
(* AntiSpamSystem with a history that is nearly full.  The user has sent   *)
(* 18, 19 or 20 messages 301 s apart, three texts in turn, none of which   *)
(* was flagged; the detector goes on from there.                           *)
(***************************************************************************)
InitHistory ==
    /\ \E n \in {HISTORY_MAXLEN - 2, HISTORY_MAXLEN - 1, HISTORY_MAXLEN} :
          /\ now = 301 * n
          /\ user_histories = [u \in SpamUsers |->
                [messages |-> [i \in 1..n |->
                     NormalizeOf(IF i % 3 = 0 THEN TextL1
                                 ELSE IF i % 3 = 1 THEN TextL2 ELSE TextL3)],
                 timestamps |-> [i \in 1..n |-> 301 * i],
                 spam_violations |-> 0, last_violation_time |-> 0]]
    /\ sample = [texts |-> {TextL1, TextBlank},
                 delays |-> {1, 301}, sweeps |-> {86401}]
    /\ calls = 0
    /\ flagged = [u \in SpamUsers |-> 0]
    /\ ret = [op |-> "init", user_id |-> 0, text |-> <<>>, time |-> 0,
              result |-> NoSpam]
    /\ users = [u \in UserIds |-> NoUser]
    /\ violations = <<>>
    /\ appeals = <<>>
    /\ bot_config = BotConfig
    /\ utc_offset = 0
    /\ sent_prompts = {}
    /\ tasks = <<>>

SpecHistory == InitHistory /\ [][NextSpam]_vars

\* C31: a user's history never holds more than 20 entries and has as many
\* timestamps as texts; a message that is not flagged is stored as the last
\* text with the time of the call as the last timestamp, the entries before
\* it keeping their order and their pairing, and when the history was full
\* exactly the oldest text and the oldest timestamp are dropped; a flagged
\* or blank message leaves both sequences as they were.
C31_BoundedHistory ==
    [][\A u \in SpamUsers :
        LET h == user_histories[u]
            h2 == user_histories'[u]
            n == Len(h.messages)
            kept == IF n = HISTORY_MAXLEN THEN 2..n ELSE 1..n
            stored == /\ ret'.op = "check_message"
                      /\ ret'.user_id = u
                      /\ ~ret'.result.is_spam
                      /\ Len(NormalizeOf(ret'.text)) > 0
        IN  /\ n <= HISTORY_MAXLEN
            /\ Len(h.timestamps) = n
            /\ Len(h2.messages) <= HISTORY_MAXLEN
            /\ Len(h2.timestamps) = Len(h2.messages)
            /\ stored =>
                  /\ Len(h2.messages) = Cardinality(kept) + 1
                  /\ h2.messages[Len(h2.messages)] = NormalizeOf(ret'.text)
                  /\ h2.timestamps[Len(h2.messages)] = ret'.time
                  /\ \A i \in kept :
                        LET j == IF n = HISTORY_MAXLEN THEN i - 1 ELSE i
                        IN  /\ h2.messages[j] = h.messages[i]
                            /\ h2.timestamps[j] = h.timestamps[i]
            /\ (ret'.op = "check_message" /\ ~stored) =>
                  /\ h2.messages = h.messages
                  /\ h2.timestamps = h.timestamps]_vars

\* C31 witness: a full history took one more message that was not flagged:
\* it still has 20 entries, the new text and the time of the call are its
\* last pair, and the pair of the first message of all is gone
C31_Witness ==
    /\ ret.op = "check_message"
    /\ ~ret.result.is_spam
    /\ Len(user_histories[1].messages) = HISTORY_MAXLEN
    /\ Len(user_histories[1].timestamps) = HISTORY_MAXLEN
    /\ user_histories[1].messages[HISTORY_MAXLEN] = NormalizeOf(ret.text)
    /\ user_histories[1].timestamps[HISTORY_MAXLEN] = ret.time
    /\ user_histories[1].timestamps[1] = 602
    /\ user_histories[1].messages[1] = NormalizeOf(TextL3)
    /\ user_histories[1].messages[HISTORY_MAXLEN - 1] = NormalizeOf(TextL3)

\* C32: the heuristics are tried in the order flood, duplicate, similar,
\* short_spam and the first that matches gives the subtype of the result;
\* a flagged message adds one to spam_violations however many heuristics
\* match, and a message that is not flagged adds nothing.
C32_FirstMatchDecides ==
    [][(calls' = calls + 1 /\ ret'.op = "check_message"
            /\ Len(NormalizeOf(ret'.text)) > 0) =>
        LET h == user_histories[ret'.user_id]
            flood == CheckFlood(h, ret'.time).is_spam
            duplicate == CheckDuplicates(h, ret'.text, ret'.time).is_spam
            similar == CheckSimilarMessages(h, ret'.text, ret'.time).is_spam
            short_spam == CheckShortMessageSpam(h, ret'.text, ret'.time).is_spam
            expected == IF flood THEN "flood"
                        ELSE IF duplicate THEN "duplicate"
                        ELSE IF similar THEN "similar"
                        ELSE IF short_spam THEN "short_spam"
                        ELSE ""
        IN  /\ ret'.result.spam_type = expected
            /\ ret'.result.is_spam = (expected # "")
            /\ user_histories'[ret'.user_id].spam_violations =
                  h.spam_violations + (IF expected # "" THEN 1 ELSE 0)]_vars

\* C32 witness: a message that the flood test and the duplicate test both
\* match was reported as flood, and it is the user's one spam violation
C32_Witness ==
    /\ ret.op = "check_message"
    /\ ret.result.spam_type = "flood"
    /\ CheckDuplicates(user_histories[ret.user_id], ret.text, ret.time).is_spam
    /\ user_histories[ret.user_id].spam_violations = 1
    /\ flagged[ret.user_id] = 1

(***************************************************************************)
(* ModerationBot (bot.py): the message handler together with the           *)
(* administrators' commands, the appeals and the sweep, for one chat       *)
(* member                                                                  *)
(***************************************************************************)
\* /mute <user_id> [minutes]; without minutes the configured duration
CmdMute(caller, user_id, duration) ==
    /\ calls < MaxCommands
    /\ calls' = calls + 1
    /\ IF ~IsAdmin(caller)
       THEN /\ ret' = Reply("cmd_mute", caller, <<user_id, duration>>, "admin_only")
            /\ UNCHANGED users
       ELSE /\ users' = BanUser(users, user_id,
                                IF duration = NULL
                                THEN bot_config.BAN_DURATION_MINUTES
                                ELSE duration, now)
            /\ ret' = Reply("cmd_mute", caller, <<user_id, duration>>, "muted")
    /\ UNCHANGED <<now, sample, sent_prompts, tasks, spamVars, violations, appeals, bot_config,
                   utc_offset>>

\* /set_trust <user_id> <new|trusted|suspicious>
CmdSetTrust(caller, user_id, new_level) ==
    /\ calls < MaxCommands
    /\ calls' = calls + 1
    /\ IF ~IsAdmin(caller)
       THEN /\ ret' = Reply("cmd_set_trust", caller, <<user_id, new_level>>, "admin_only")
            /\ UNCHANGED users
       ELSE IF new_level \notin {"new", "trusted", "suspicious"}
       THEN /\ ret' = Reply("cmd_set_trust", caller, <<user_id, new_level>>, "levels")
            /\ UNCHANGED users
       ELSE /\ users' = IF users[user_id].exists
                        THEN [users EXCEPT ![user_id].trust_level = new_level]
                        ELSE users
            /\ ret' = Reply("cmd_set_trust", caller, <<user_id, new_level>>, "set")
    /\ UNCHANGED <<now, sample, sent_prompts, tasks, spamVars, violations, appeals, bot_config,
                   utc_offset>>

\* the waits are an hour and a day, a ban is without end or for 60 minutes,
\* /set_trust names a level or a word that is none
NextModeration ==
    \/ \E d \in {3600, 86400} : Tick(d)
    \/ \E u \in Senders, m \in {NULL, 60} : CmdBan(9, u, m)
    \/ \E u \in Senders, m \in {NULL, 60} : CmdMute(9, u, m)
    \/ \E u \in Senders : CmdUnban(9, u)
    \/ \E u \in Senders : CmdWarn(9, u)
    \/ \E u \in Senders, l \in {"trusted", "vip"} : CmdSetTrust(9, u, l)
    \/ \E u \in Senders : IsUserBannedCall(u)
    \/ BackgroundLoop
    \/ \E u \in Senders : CmdAppeal(u, APPEAL_MIN_LENGTH)
    \/ \E i \in 1..Len(appeals) : CmdConfirmAccept(9, i)
    \/ \E u \in Senders, m \in {MsgPlain, MsgLinks, MsgBannedWords, MsgAiWarn} :
          HandleMessage(u, m)
    \/ \E u \in Senders : HandleChatMemberUpdate(u, TRUE)

\* the sender's row when the bot starts has no link violation yet, and
\* banned words either ban at once or count as a warning
InitModeration ==
    /\ InitFailure
    /\ users[1].link_violations_count = 0
    /\ bot_config.BAN_ON_REPEATED_LINK_VIOLATION

SpecModeration == InitModeration /\ [][NextModeration]_vars

\* C33: in every state that bans, unbans, queries, sweeps, messages and
\* appeals lead to, a user who is not banned has no time of expiry stored.
C33_NoExpiryWithoutBan ==
    \A u \in UserIds : ~users[u].is_banned => users[u].ban_until = NULL

\* C33 witness: the user has written since the bot started, a ban with a
\* time of expiry has run out and the sweep has lifted it: the user is not
\* banned and no time of expiry is stored
C33_Witness ==
    /\ ret.op = "cleanup_expired_bans"
    /\ ret.result = 1
    /\ ~users[1].is_banned
    /\ users[1].ban_until = NULL
    /\ users[1].messages_count > 9

C35_Original ==
    [][(calls' = calls + 1 /\ ret'.op = "handle_message") =>
        users'[ret'.caller].trust_level =
            CalculateTrustLevel(users', ret'.caller, now')]_vars

\* C36: no step makes a user's warnings_count or link_violations_count
\* smaller, and a step that lifts a ban (/unban, the expiry found by
\* is_user_banned or by the sweep, the approval of an appeal) leaves both as
\* they were; a user unbanned with warnings_count at or above
\* WARNING_THRESHOLD is therefore still there afterwards.
C36_CountersKept ==
    [][\A u \in UserIds :
        users[u].exists =>
            /\ users'[u].exists
            /\ users'[u].warnings_count >= users[u].warnings_count
            /\ users'[u].link_violations_count >= users[u].link_violations_count
            /\ ret'.op \in {"cmd_unban", "is_user_banned", "cleanup_expired_bans",
                            "cmd_confirm_accept", "cmd_ban", "cmd_mute"} =>
                  /\ users'[u].warnings_count = users[u].warnings_count
                  /\ users'[u].link_violations_count =
                        users[u].link_violations_count]_vars

\* C36 witness: a user with three warnings was banned, appealed, and the
\* appeal has just been approved: the user is free and has three warnings
C36_Witness ==
    /\ ret.op = "cmd_confirm_accept"
    /\ ret.result = "approved"
    /\ ~users[1].is_banned
    /\ users[1].warnings_count >= bot_config.WARNING_THRESHOLD

\* C37 as stated: the record a handled message adds to the violation log
\* says ban exactly when that handling banned the sender (the checks run
\* only for a sender who is not banned, so the sender is banned afterwards
\* exactly when this handling banned them).
C37_Original ==
    [][(/\ calls' = calls + 1
        /\ ret'.op = "handle_message"
        /\ Len(violations') = Len(violations) + 1) =>
            ((violations'[Len(violations')].action_taken = "ban")
                <=> users'[ret'.caller].is_banned)]_vars

(***************************************************************************)
(* A ban that ends while its appeal is pending: the administrator bans for *)
(* 60 minutes a member who is not banned, the member appeals, time passes  *)
(* and the sweep runs                                                      *)
(***************************************************************************)
NextReappeal ==
    \/ \E d \in {1800, 3600} : Tick(d)
    \/ \E u \in Senders : ~users[u].is_banned /\ CmdBan(9, u, 60)
    \/ BackgroundLoop
    \/ \E u \in Senders : CmdAppeal(u, APPEAL_MIN_LENGTH)
    \/ \E i \in 1..Len(appeals) : CmdConfirmAccept(9, i)

SpecReappeal == InitAppeal /\ [][NextReappeal]_vars

\* C38 as stated: the approval of an appeal does not lift a ban that began
\* after the appeal was filed. Every ban here lasts 60 minutes and is given
\* to a member who is not banned, so a ban whose time of expiry less 60
\* minutes is later than the appeal's created_at is a newer ban than the
\* one the appeal was filed against, and that one has ended.
C38_Original ==
    [][\A i \in 1..Len(appeals) :
        (/\ appeals[i].status = "pending"
         /\ appeals'[i].status = "approved"
         /\ users[appeals[i].user_id].is_banned
         /\ users[appeals[i].user_id].ban_until # NULL
         /\ users[appeals[i].user_id].ban_until - 60 * SECONDS_PER_MINUTE
                > appeals[i].created_at) =>
            users'[appeals[i].user_id].is_banned]_vars

\* C39: a handled text message adds exactly one to the sender's
\* messages_count, whether the sender is banned or not and whatever becomes
\* of the message (a sender without a row gets one with a count of 1), and
\* no other step changes the count of any user; the trust level is
\* calculated after the count was raised: off the link path the level stored
\* afterwards is the one calculate_trust_level gives for the row with the
\* new count, and a link is tested against that level.
C39_MessagesCounted ==
    [][\A u \in UserIds :
        IF calls' = calls + 1 /\ ret'.op = "handle_message" /\ ret'.caller = u
        THEN /\ users'[u].exists
             /\ users'[u].messages_count = users[u].messages_count + 1
             /\ ret'.result.path # "links" =>
                   users'[u].trust_level = CalculateTrustLevel(users', u, now)
             /\ (ret'.result.path = "links") =>
                   /\ ret'.arg.links
                   /\ CalculateTrustLevel(
                          [users' EXCEPT ![u].link_violations_count =
                                             users[u].link_violations_count],
                          u, now) # "trusted"
        ELSE users'[u].messages_count = users[u].messages_count]_vars

\* C39 witness: the tenth message of a member who joined three days ago
\* holds a link; it is counted, the member is trusted from this message on
\* and the link ladder lets the message pass
C39_Witness ==
    /\ ret.op = "handle_message"
    /\ ret.arg.links
    /\ ret.result.path # "links"
    /\ ret.result.path # "banned"
    /\ users[1].messages_count = bot_config.TRUST_MESSAGES_THRESHOLD
    /\ users[1].trust_level = "trusted"
    /\ users[1].link_violations_count = 0

\* C40: a message from a user whose ban is in force (banned, and without a
\* time of expiry or with one that lies ahead) is deleted and nothing else:
\* warnings_count, link_violations_count, is_banned and ban_until are as
\* before, the violation log gets no record, and neither the link detector
\* nor the banned words nor the classifier is consulted.
C40_BannedSenderFrame ==
    [][(calls' = calls + 1 /\ ret'.op = "handle_message") =>
        LET u == ret'.caller
            in_force == /\ users[u].exists
                        /\ users[u].is_banned
                        /\ (users[u].ban_until = NULL
                            \/ users[u].ban_until > LocalNow(now))
        IN  in_force =>
               /\ users'[u].warnings_count = users[u].warnings_count
               /\ users'[u].link_violations_count = users[u].link_violations_count
               /\ users'[u].is_banned
               /\ users'[u].ban_until = users[u].ban_until
               /\ violations' = violations
               /\ ret'.result.path = "banned"
               /\ ret'.result.consulted = <<>>
               /\ ret'.result.deleted]_vars

\* C40 witness: a banned user sent a message with a banned word; it went
\* the banned path, the log is empty and the user has no warning
C40_Witness ==
    /\ ret.op = "handle_message"
    /\ ret.arg.banned_words
    /\ ret.result.path = "banned"
    /\ ret.result.consulted = <<>>
    /\ users[1].is_banned
    /\ users[1].warnings_count = 0
    /\ violations = <<>>

====
